---- MODULE Spec2Model ----
(***************************************************************************)
(* Persistent strings of the persistring crate: the rope strategy          *)
(* (src/src/rope.rs) and the segment-list strategy                         *)
(* (src/src/long_buffer.rs) over an append-only UTF-8 byte buffer          *)
(* (src/src/util/string_segment.rs), behind the PersistentString trait     *)
(* (src/src/lib.rs); and the copy-on-write (src/src/cow.rs) and delta-log  *)
(* (src/src/delta.rs) strategies with their undo and redo.                 *)
(*                                                                         *)
(* A `char` is its code point, a `String`/`&str` is its sequence of UTF-8  *)
(* bytes.  Rust indices are 0-based: address a of a Vec is element a + 1   *)
(* of the sequence that models it.                                         *)
(***************************************************************************)
EXTENDS Integers, Sequences, FiniteSets, TLC

VARIABLES
    strategy,   \* which implementation of PersistentString the run drives
    debug,      \* cfg!(debug_assertions) of the build
    rope,       \* RopePersistentString {buffer, nodes, versions, current_version}
    long,       \* LongBufferPersistentString {buffer, versions, current_version}
    cow,        \* CowPersistentString {versions, current_version}
    delta,      \* DeltaPersistentString {deltas, current_version}
    panicked,   \* whether a call has panicked (the run ends there)
    last,       \* the last call: its name, arguments, return value, pre-state
    observed    \* observed[v + 1]: snapshot() taken right after v was allocated

vars == <<strategy, debug, rope, long, cow, delta, panicked, last, observed>>

----------------------------------------------------------------------------
(* Bounds of the model and the inputs the calls are driven with.            *)

\* the highest version handle a run allocates
MaxVersion == 2
\* the longest text, in bytes, a version may hold
MaxLen == 4
\* repeat(times) is called with times in 0 .. MaxTimes
MaxTimes == 3
\* the highest version handle of a run of push, pop and repeat alone
MaxDeepVersion == 4

\* 'a' (one byte in UTF-8) and U+00E9 (two bytes)
Chars == {97, 233}

----------------------------------------------------------------------------
(* UTF-8: char::len_utf8, char::encode_utf8, str::from_utf8, str::chars     *)

len_utf8(c) ==
    IF c < 128 THEN 1 ELSE IF c < 2048 THEN 2 ELSE IF c < 65536 THEN 3 ELSE 4

encode_utf8(c) ==
    CASE len_utf8(c) = 1 -> <<c>>
      [] len_utf8(c) = 2 -> <<192 + (c \div 64), 128 + (c % 64)>>
      [] len_utf8(c) = 3 ->
            <<224 + (c \div 4096), 128 + ((c \div 64) % 64), 128 + (c % 64)>>
      [] OTHER ->
            <<240 + (c \div 262144), 128 + ((c \div 4096) % 64),
              128 + ((c \div 64) % 64), 128 + (c % 64)>>

\* the bytes of the string made of the chars cs
RECURSIVE Str(_)
Str(cs) == IF cs = <<>> THEN <<>> ELSE encode_utf8(Head(cs)) \o Str(Tail(cs))

IsContinuation(b) == b >= 128 /\ b < 192

\* the length the lead byte b announces, 0 if b cannot start a scalar value
LeadWidth(b) ==
    IF b < 128 THEN 1
    ELSE IF b >= 194 /\ b < 224 THEN 2
    ELSE IF b >= 224 /\ b < 240 THEN 3
    ELSE IF b >= 240 /\ b < 245 THEN 4
    ELSE 0

DecodeOne(bs, w) ==
    CASE w = 1 -> bs[1]
      [] w = 2 -> (bs[1] - 192) * 64 + (bs[2] - 128)
      [] w = 3 -> (bs[1] - 224) * 4096 + (bs[2] - 128) * 64 + (bs[3] - 128)
      [] OTHER -> (bs[1] - 240) * 262144 + (bs[2] - 128) * 4096
                    + (bs[3] - 128) * 64 + (bs[4] - 128)

\* std::str::from_utf8 followed by .chars(): [ok |-> FALSE] on bytes that are
\* not UTF-8, else the scalar values in order
RECURSIVE from_utf8(_)
from_utf8(bs) ==
    IF bs = <<>> THEN [ok |-> TRUE, chars |-> <<>>]
    ELSE LET w == LeadWidth(bs[1]) IN
         IF w = 0 \/ w > Len(bs) \/ \E k \in 2..w : ~IsContinuation(bs[k])
         THEN [ok |-> FALSE, chars |-> <<>>]
         ELSE LET rest == from_utf8(SubSeq(bs, w + 1, Len(bs))) IN
              IF rest.ok
              THEN [ok |-> TRUE, chars |-> <<DecodeOne(bs, w)>> \o rest.chars]
              ELSE rest

----------------------------------------------------------------------------
(* util::BytesSegment                                                       *)

BytesSegment(begin, end) == [begin |-> begin, end |-> end]

EMPTY == BytesSegment(0, 0)

of_length(from, length) == BytesSegment(from, from + length)

\* non_empty_of_length that ends the segment one byte past the bytes written
non_empty_of_length_past_end(from, length) == BytesSegment(from, from + length + 1)

non_empty_of_length(from, length) == BytesSegment(from, from + length)

segment_len(segment) == segment.end - segment.begin

\* &buffer[begin..end] then from_utf8(..).expect(..): [ok |-> FALSE] is the panic
\* of the slice (range out of bounds) or of the expect (not UTF-8)
as_str(segment, buffer) ==
    IF segment.begin > segment.end \/ segment.end > Len(buffer)
    THEN [ok |-> FALSE, bytes |-> <<>>, chars |-> <<>>]
    ELSE LET bytes == SubSeq(buffer, segment.begin + 1, segment.end)
             decoded == from_utf8(bytes)
         IN  [ok |-> decoded.ok, bytes |-> IF decoded.ok THEN bytes ELSE <<>>,
              chars |-> decoded.chars]

\* split_at with the byte at the index in both halves
split_at_overlapping(segment, index) ==
    <<BytesSegment(segment.begin, segment.begin + index + 1),
      BytesSegment(segment.begin + index, segment.end)>>

split_at(segment, index) ==
    <<BytesSegment(segment.begin, segment.begin + index),
      BytesSegment(segment.begin + index, segment.end)>>

----------------------------------------------------------------------------
(* rope.rs: Node, NodeBody and the private helpers of RopePersistentString  *)

Leaf(segment) == [kind |-> "Leaf", segment |-> segment]

Parent(left, right) == [kind |-> "Parent", left |-> left, right |-> right]

Node(length, body) == [length |-> length, body |-> body]

of_segment(segment) == Node(segment_len(segment), Leaf(segment))

\* self.nodes[address]
NodeAt(nodes, address) == nodes[address + 1]

node_address(r, index) == r.versions[index + 1]

current_node_address(r) == node_address(r, r.current_version)

version_node(r, index) == NodeAt(r.nodes, node_address(r, index))

current_version_node(r) == NodeAt(r.nodes, current_node_address(r))

\* the text of a subtree: [ok |-> FALSE] when a leaf's as_str panics
RECURSIVE build_snapshot(_, _)
build_snapshot(r, body) ==
    IF body.kind = "Leaf"
    THEN LET s == as_str(body.segment, r.buffer) IN [ok |-> s.ok, bytes |-> s.bytes]
    ELSE LET l == build_snapshot(r, NodeAt(r.nodes, body.left).body) IN
         IF ~l.ok THEN l
         ELSE LET rt == build_snapshot(r, NodeAt(r.nodes, body.right).body) IN
              IF ~rt.ok THEN rt ELSE [ok |-> TRUE, bytes |-> l.bytes \o rt.bytes]

\* snapshot() with the engine at version index
rope_snapshot_at(r, index) == build_snapshot(r, version_node(r, index).body)

rope_snapshot(r) == rope_snapshot_at(r, r.current_version)

rope_len(r) == current_version_node(r).length

rope_is_empty(r) == current_version_node(r).length = 0

\* pop_nonempty_recursively with the "pull up" arm pushing a copy of the left
\* node instead of returning its address
RECURSIVE pop_nonempty_recursively_copying_left(_, _, _)
pop_nonempty_recursively_copying_left(nodes, buffer, node) ==
    IF node.body.kind = "Leaf"
    THEN LET segment == node.body.segment
             s == as_str(segment, buffer)
         IN  IF ~s.ok \/ s.chars = <<>>
             THEN [ok |-> FALSE, nodes |-> nodes, address |-> 0, popped |-> 0]
             ELSE LET last_char == s.chars[Len(s.chars)]
                      last_char_length == len_utf8(last_char)
                      new_length == segment_len(segment) - last_char_length
                  IN  IF new_length = 0
                      THEN [ok |-> TRUE, nodes |-> nodes, address |-> 0,
                            popped |-> last_char]
                      ELSE [ok |-> TRUE,
                            nodes |-> Append(nodes,
                                Node(new_length,
                                     Leaf(BytesSegment(segment.begin,
                                            segment.end - last_char_length)))),
                            address |-> Len(nodes),
                            popped |-> last_char]
    ELSE LET left == node.body.left
             right == node.body.right
         IN  IF debug /\ ~(left # 0 /\ right # 0)
             THEN [ok |-> FALSE, nodes |-> nodes, address |-> 0, popped |-> 0]
             ELSE LET sub == pop_nonempty_recursively_copying_left(nodes, buffer,
                                                      NodeAt(nodes, right))
                  IN  IF ~sub.ok THEN sub
                      ELSE IF sub.address = 0
                      THEN [ok |-> TRUE,
                            nodes |-> Append(sub.nodes, NodeAt(nodes, left)),
                            address |-> Len(sub.nodes),
                            popped |-> sub.popped]
                      ELSE [ok |-> TRUE,
                            nodes |-> Append(sub.nodes,
                                Node(node.length - len_utf8(sub.popped),
                                     Parent(left, sub.address))),
                            address |-> Len(sub.nodes),
                            popped |-> sub.popped]

\* [ok, nodes, address, popped]: the arena after the call, the address of the
\* node that replaces `node` (0: it became empty) and the char removed;
\* ok = FALSE is a panic (the expect of the leaf arm, the debug assertion of
\* the parent arm, or as_str), raised before this call pushes any node
RECURSIVE pop_nonempty_recursively(_, _, _)
pop_nonempty_recursively(nodes, buffer, node) ==
    IF node.body.kind = "Leaf"
    THEN LET segment == node.body.segment
             s == as_str(segment, buffer)
         IN  IF ~s.ok \/ s.chars = <<>>
             THEN [ok |-> FALSE, nodes |-> nodes, address |-> 0, popped |-> 0]
             ELSE LET last_char == s.chars[Len(s.chars)]
                      last_char_length == len_utf8(last_char)
                      new_length == segment_len(segment) - last_char_length
                  IN  IF new_length = 0
                      THEN [ok |-> TRUE, nodes |-> nodes, address |-> 0,
                            popped |-> last_char]
                      ELSE [ok |-> TRUE,
                            nodes |-> Append(nodes,
                                Node(new_length,
                                     Leaf(BytesSegment(segment.begin,
                                            segment.end - last_char_length)))),
                            address |-> Len(nodes),
                            popped |-> last_char]
    ELSE LET left == node.body.left
             right == node.body.right
         IN  IF debug /\ ~(left # 0 /\ right # 0)
             THEN [ok |-> FALSE, nodes |-> nodes, address |-> 0, popped |-> 0]
             ELSE LET sub == pop_nonempty_recursively(nodes, buffer,
                                                      NodeAt(nodes, right))
                  IN  IF ~sub.ok THEN sub
                      ELSE IF sub.address = 0
                      THEN [ok |-> TRUE, nodes |-> sub.nodes, address |-> left,
                            popped |-> sub.popped]
                      ELSE [ok |-> TRUE,
                            nodes |-> Append(sub.nodes,
                                Node(node.length - len_utf8(sub.popped),
                                     Parent(left, sub.address))),
                            address |-> Len(sub.nodes),
                            popped |-> sub.popped]

\* [ok, nodes, address]: the arena after the call and the address of the node
\* that replaces `node`; ok = FALSE is the debug assertion of split_at
RECURSIVE insert_str_recursively(_, _, _, _, _)
insert_str_recursively(nodes, node, address, insertion, index) ==
    IF node.body.kind = "Leaf"
    THEN LET segment == node.body.segment
             inserted_node_address == Len(nodes)
             with_inserted == Append(nodes, of_segment(insertion))
         IN  IF index = 0
             THEN [ok |-> TRUE,
                   nodes |-> Append(with_inserted,
                       Node(node.length + segment_len(insertion),
                            Parent(inserted_node_address, address))),
                   address |-> Len(with_inserted)]
             ELSE IF index = segment_len(segment)
             THEN [ok |-> TRUE,
                   nodes |-> Append(with_inserted,
                       Node(node.length + segment_len(insertion),
                            Parent(address, inserted_node_address))),
                   address |-> Len(with_inserted)]
             ELSE IF debug /\ index > segment_len(segment)
             THEN [ok |-> FALSE, nodes |-> with_inserted, address |-> 0]
             ELSE LET halves == split_at(segment, index)
                      left_segment == halves[1]
                      right_segment == halves[2]
                      left_address == Len(with_inserted)
                      right_address == left_address + 1
                      left_pair_address == left_address + 2
                  IN  [ok |-> TRUE,
                       nodes |-> with_inserted \o
                           <<of_segment(left_segment),
                             of_segment(right_segment),
                             Node(segment_len(left_segment) + segment_len(insertion),
                                  Parent(left_address, inserted_node_address)),
                             Node(segment_len(segment) + segment_len(insertion),
                                  Parent(left_pair_address, right_address))>>,
                       address |-> left_address + 3]
    ELSE LET left_address == node.body.left
             right_address == node.body.right
             left_node == NodeAt(nodes, left_address)
             left_length == left_node.length
         IN  IF index <= left_length
             THEN LET sub == insert_str_recursively(nodes, left_node, left_address,
                                                    insertion, index)
                  IN  IF ~sub.ok THEN sub
                      ELSE [ok |-> TRUE,
                            nodes |-> Append(sub.nodes,
                                Node(node.length + segment_len(insertion),
                                     Parent(sub.address, right_address))),
                            address |-> Len(sub.nodes)]
             ELSE LET sub == insert_str_recursively(nodes,
                                 NodeAt(nodes, right_address), right_address,
                                 insertion, index - left_length)
                  IN  IF ~sub.ok THEN sub
                      ELSE [ok |-> TRUE,
                            nodes |-> Append(sub.nodes,
                                Node(node.length + segment_len(insertion),
                                     Parent(left_address, sub.address))),
                            address |-> Len(sub.nodes)]

----------------------------------------------------------------------------
(* rope.rs: impl PersistentString for RopePersistentString.  Every call     *)
(* yields [ok, state, ret]: ok = FALSE is a panic, state is the engine as   *)
(* the call (or its panic) leaves it, ret is the value returned.            *)

Unit == <<"()">>
None == <<"None">>
Some(x) == <<"Some", x>>
Ok == <<"Ok">>
InvalidVersion(version) == <<"Err", "InvalidVersion", version>>
Panic(message) == <<"panic", message>>

Returned(state, ret) == [ok |-> TRUE, state |-> state, ret |-> ret]
Panicked(state, message) == [ok |-> FALSE, state |-> state, ret |-> Panic(message)]

rope_new ==
    [buffer |-> <<>>,
     nodes |-> <<Node(0, Leaf(EMPTY))>>,
     versions |-> <<0>>,
     current_version |-> 0]

rope_version(r) == r.current_version

rope_latest_version(r) == Len(r.versions) - 1

\* rope_try_switch_version that compares the handle with latest_version()
\* by `<`: the latest handle is refused
rope_try_switch_version_below_latest(r, version) ==
    IF version < Len(r.versions) - 1
    THEN Returned([r EXCEPT !.current_version = version], Ok)
    ELSE Returned(r, InvalidVersion(version))

rope_try_switch_version(r, version) ==
    IF version < Len(r.versions)
    THEN Returned([r EXCEPT !.current_version = version], Ok)
    ELSE Returned(r, InvalidVersion(version))

\* rope_pop with a root leaf shrunk where it is in the arena instead of
\* copied: the bug of popping through a `&mut` to a shared node
rope_pop_shrinks_in_place(r) ==
    LET address == current_node_address(r)
        node == NodeAt(r.nodes, address)
    IN  IF node.length = 0
        THEN Returned(r, None)
        ELSE IF node.body.kind = "Leaf"
        THEN LET s == as_str(node.body.segment, r.buffer)
                 last_char == s.chars[Len(s.chars)]
             IN  Returned(
                    [r EXCEPT !.nodes[address + 1] =
                                  Node(node.length - len_utf8(last_char),
                                       Leaf(BytesSegment(node.body.segment.begin,
                                            node.body.segment.end - len_utf8(last_char)))),
                              !.versions = Append(r.versions, address),
                              !.current_version = Len(r.versions)],
                    Some(last_char))
        ELSE LET res == pop_nonempty_recursively(r.nodes, r.buffer, node)
             IN  IF ~res.ok
                 THEN Panicked(r, "pop_nonempty_recursively")
                 ELSE Returned([r EXCEPT !.nodes = res.nodes,
                                         !.versions = Append(r.versions, res.address),
                                         !.current_version = Len(r.versions)],
                               Some(res.popped))

rope_pop(r) ==
    IF current_version_node(r).length = 0
    THEN Returned(r, None)
    ELSE LET res == pop_nonempty_recursively(r.nodes, r.buffer,
                                             current_version_node(r))
         IN  IF ~res.ok
             THEN Panicked(r, "pop_nonempty_recursively")
             ELSE Returned([r EXCEPT !.nodes = res.nodes,
                                     !.versions = Append(r.versions, res.address),
                                     !.current_version = Len(r.versions)],
                           Some(res.popped))

rope_push(r, character) ==
    LET new_version == Len(r.versions)
        character_length == len_utf8(character)
        address == current_node_address(r)
        right_node_index == Len(r.nodes)
        suffix_begin == Len(r.buffer)
        new_node_address == right_node_index + 1
    IN  Returned(
            [buffer |-> r.buffer \o encode_utf8(character),
             nodes |-> r.nodes \o
                 <<Node(character_length,
                        Leaf(non_empty_of_length(suffix_begin, character_length))),
                   Node(NodeAt(r.nodes, address).length + character_length,
                        Parent(address, right_node_index))>>,
             versions |-> Append(r.versions, new_node_address),
             current_version |-> new_version],
            Unit)

\* push_str without the `suffix_length == 0` arm: a leaf for every suffix
rope_push_str_with_leaf_for_empty_suffix(r, suffix) ==
    LET address == current_node_address(r)
        right_node_index == Len(r.nodes)
        leaf == Node(Len(suffix), Leaf(non_empty_of_length(Len(r.buffer), Len(suffix))))
    IN  IF address = 0
        THEN Returned([buffer |-> r.buffer \o suffix,
                       nodes |-> Append(r.nodes, leaf),
                       versions |-> Append(r.versions, right_node_index),
                       current_version |-> Len(r.versions)],
                      Unit)
        ELSE Returned([buffer |-> r.buffer \o suffix,
                       nodes |-> r.nodes \o
                           <<leaf,
                             Node(NodeAt(r.nodes, address).length + Len(suffix),
                                  Parent(address, right_node_index))>>,
                       versions |-> Append(r.versions, right_node_index + 1),
                       current_version |-> Len(r.versions)],
                      Unit)

\* push_str without the `current_node_address == 0` arm: a Parent over the
\* current root whatever it is, as push makes
rope_push_str_always_under_parent(r, suffix) ==
    LET address == current_node_address(r)
        right_node_index == Len(r.nodes)
    IN  IF Len(suffix) = 0
        THEN Returned([r EXCEPT !.versions = Append(r.versions, address),
                                !.current_version = Len(r.versions)],
                      Unit)
        ELSE Returned([buffer |-> r.buffer \o suffix,
                       nodes |-> r.nodes \o
                           <<Node(Len(suffix),
                                  Leaf(non_empty_of_length(Len(r.buffer), Len(suffix)))),
                             Node(NodeAt(r.nodes, address).length + Len(suffix),
                                  Parent(address, right_node_index))>>,
                       versions |-> Append(r.versions, right_node_index + 1),
                       current_version |-> Len(r.versions)],
                      Unit)

rope_push_str(r, suffix) ==
    LET new_version == Len(r.versions)
        suffix_length == Len(suffix)
        address == current_node_address(r)
        right_node_index == Len(r.nodes)
        suffix_begin == Len(r.buffer)
        leaf == Node(suffix_length,
                     Leaf(non_empty_of_length(suffix_begin, suffix_length)))
    IN  IF suffix_length = 0
        THEN Returned([r EXCEPT !.versions = Append(r.versions, address),
                                !.current_version = new_version],
                      Unit)
        ELSE IF address = 0
        THEN Returned([buffer |-> r.buffer \o suffix,
                       nodes |-> Append(r.nodes, leaf),
                       versions |-> Append(r.versions, right_node_index),
                       current_version |-> new_version],
                      Unit)
        ELSE Returned([buffer |-> r.buffer \o suffix,
                       nodes |-> r.nodes \o
                           <<leaf,
                             Node(NodeAt(r.nodes, address).length + suffix_length,
                                  Parent(address, right_node_index))>>,
                       versions |-> Append(r.versions, right_node_index + 1),
                       current_version |-> new_version],
                      Unit)

\* the loop of repeat with the children of each new Parent swapped
RECURSIVE repeat_spine_right_leaning(_, _, _, _, _, _)
repeat_spine_right_leaning(nodes, top_index, top_length, length, current_node_index, left) ==
    IF left = 0 THEN [nodes |-> nodes, top_index |-> top_index]
    ELSE repeat_spine_right_leaning(
            Append(nodes, Node(top_length + length,
                               Parent(current_node_index, top_index))),
            Len(nodes), top_length + length, length, current_node_index, left - 1)

\* the loop of repeat without `top_length += length`
RECURSIVE repeat_spine_of_stale_length(_, _, _, _, _, _)
repeat_spine_of_stale_length(nodes, top_index, top_length, length, current_node_index, left) ==
    IF left = 0 THEN [nodes |-> nodes, top_index |-> top_index]
    ELSE repeat_spine_of_stale_length(
            Append(nodes, Node(top_length, Parent(top_index, current_node_index))),
            Len(nodes), top_length, length, current_node_index, left - 1)

\* the loop `for _ in 2..=times` of repeat, with `left` iterations to go
RECURSIVE repeat_spine(_, _, _, _, _, _)
repeat_spine(nodes, top_index, top_length, length, current_node_index, left) ==
    IF left = 0 THEN [nodes |-> nodes, top_index |-> top_index]
    ELSE repeat_spine(
            Append(nodes, Node(top_length + length,
                               Parent(top_index, current_node_index))),
            Len(nodes), top_length + length, length, current_node_index, left - 1)

rope_repeat(r, times) ==
    LET new_version == Len(r.versions)
        current_node_index == current_node_address(r)
        length == NodeAt(r.nodes, current_node_index).length
    IN  IF current_node_index = 0 \/ times = 0
        THEN Returned([r EXCEPT !.versions = Append(r.versions, 0),
                                !.current_version = new_version], Unit)
        ELSE IF times = 1
        THEN Returned([r EXCEPT !.versions = Append(r.versions, current_node_index),
                                !.current_version = new_version], Unit)
        ELSE IF times = 2
        THEN Returned([r EXCEPT !.nodes = Append(r.nodes,
                                    Node(length * 2,
                                         Parent(current_node_index,
                                                current_node_index))),
                                !.versions = Append(r.versions, Len(r.nodes)),
                                !.current_version = new_version], Unit)
        ELSE LET spine == repeat_spine(r.nodes, current_node_index, length, length,
                                       current_node_index, times - 1)
             IN  Returned([r EXCEPT !.nodes = spine.nodes,
                                    !.versions = Append(r.versions, spine.top_index),
                                    !.current_version = new_version], Unit)

rope_remove(r, index) == Panicked(r, "not yet implemented")

rope_retain(r, filter) == Panicked(r, "not yet implemented")

\* insert_str that writes the insertion to the buffer before it compares the
\* index with the length
rope_insert_str_writing_before_guard(r, index, insertion) ==
    LET address == current_node_address(r)
        node == NodeAt(r.nodes, address)
        new_version == Len(r.versions)
        segment == of_length(Len(r.buffer), Len(insertion))
        grown == r.buffer \o insertion
    IN  IF index > node.length
        THEN Panicked([r EXCEPT !.buffer = grown], "index exceeds length")
        ELSE IF insertion = <<>>
        THEN Returned([r EXCEPT !.versions = Append(r.versions, address),
                                !.current_version = new_version], Unit)
        ELSE IF node.length = 0
        THEN Returned([buffer |-> grown,
                       nodes |-> Append(r.nodes, of_segment(segment)),
                       versions |-> Append(r.versions, Len(r.nodes)),
                       current_version |-> new_version], Unit)
        ELSE LET res == insert_str_recursively(r.nodes, node, address, segment, index)
             IN  IF ~res.ok
                 THEN Panicked([r EXCEPT !.buffer = grown, !.nodes = res.nodes],
                               "split_at index out of bounds")
                 ELSE Returned([buffer |-> grown,
                                nodes |-> res.nodes,
                                versions |-> Append(r.versions, res.address),
                                current_version |-> new_version], Unit)

rope_insert_str(r, index, insertion) ==
    LET address == current_node_address(r)
        node == NodeAt(r.nodes, address)
        new_version == Len(r.versions)
        segment == of_length(Len(r.buffer), Len(insertion))
        grown == r.buffer \o insertion
    IN  IF index > node.length
        THEN Panicked(r, "index exceeds length")
        ELSE IF insertion = <<>>
        THEN Returned([r EXCEPT !.versions = Append(r.versions, address),
                                !.current_version = new_version], Unit)
        ELSE IF node.length = 0
        THEN Returned([buffer |-> grown,
                       nodes |-> Append(r.nodes, of_segment(segment)),
                       versions |-> Append(r.versions, Len(r.nodes)),
                       current_version |-> new_version], Unit)
        ELSE LET res == insert_str_recursively(r.nodes, node, address, segment, index)
             IN  IF ~res.ok
                 THEN Panicked([r EXCEPT !.buffer = grown, !.nodes = res.nodes],
                               "split_at index out of bounds")
                 ELSE Returned([buffer |-> grown,
                                nodes |-> res.nodes,
                                versions |-> Append(r.versions, res.address),
                                current_version |-> new_version], Unit)

rope_insert(r, index, character) == rope_insert_str(r, index, encode_utf8(character))

----------------------------------------------------------------------------
(* long_buffer.rs: Segment, Version and LongBufferPersistentString          *)

Segment(begin, end) == [begin |-> begin, end |-> end]

try_from_of_length(from, length) ==
    IF length > 0 THEN Some(Segment(from, from + length)) ELSE None

\* Segment::len: `self.end - (self.begin + 1)`; pop, its only caller, reaches it
\* after the expect on the segment's last char, that is with begin < end
long_segment_len(segment) == segment.end - (segment.begin + 1)

Version(segments, length) == [segments |-> segments, length |-> length]

\* Version::build
RECURSIVE build(_, _)
build(segments, buffer) ==
    IF segments = <<>> THEN [ok |-> TRUE, bytes |-> <<>>]
    ELSE LET s == as_str(Head(segments), buffer) IN
         IF ~s.ok THEN [ok |-> FALSE, bytes |-> <<>>]
         ELSE LET rest == build(Tail(segments), buffer) IN
              IF ~rest.ok THEN rest ELSE [ok |-> TRUE, bytes |-> s.bytes \o rest.bytes]

long_new ==
    [buffer |-> <<>>, versions |-> <<Version(<<>>, 0)>>, current_version |-> 0]

long_version(l) == l.current_version

long_latest_version(l) == Len(l.versions) - 1

\* bump_version: the version that was current, and the engine with
\* current_version already moved to the index the caller is about to push
bump_version(l) ==
    [old_version |-> l.versions[l.current_version + 1],
     state |-> [l EXCEPT !.current_version = Len(l.versions)]]

\* long_try_switch_version that goes through bump_version and pushes a copy
\* of the version switched to: a switch that allocates
long_try_switch_version_allocating(l, version) ==
    IF version < Len(l.versions)
    THEN Returned([l EXCEPT !.versions = Append(@, l.versions[version + 1]),
                            !.current_version = version], Ok)
    ELSE Returned(l, InvalidVersion(version))

long_try_switch_version(l, version) ==
    IF version < Len(l.versions)
    THEN Returned([l EXCEPT !.current_version = version], Ok)
    ELSE Returned(l, InvalidVersion(version))

long_snapshot_at(l, index) == build(l.versions[index + 1].segments, l.buffer)

long_snapshot(l) == long_snapshot_at(l, l.current_version)

long_is_empty(l) == l.versions[l.current_version + 1].length = 0

long_len(l) == l.versions[l.current_version + 1].length

\* long_pop with `last_mut` taken on the stored version instead of on its
\* clone: the version that was current loses the char as well
long_pop_without_clone(l) ==
    LET bumped == bump_version(l)
        new_version == bumped.old_version
        segments == new_version.segments
    IN  IF segments = <<>>
        THEN Returned([bumped.state EXCEPT !.versions = Append(l.versions, new_version)],
                      None)
        ELSE LET last_segment == segments[Len(segments)]
                 s == as_str(last_segment, l.buffer)
             IN  IF ~s.ok \/ s.chars = <<>>
                 THEN Panicked(bumped.state, "no empty segments should be stored")
                 ELSE LET last_char == s.chars[Len(s.chars)]
                          last_char_len == len_utf8(last_char)
                          popped_segments ==
                              IF long_segment_len(last_segment) > last_char_len
                              THEN [segments EXCEPT ![Len(segments)].end =
                                        last_segment.end - last_char_len]
                              ELSE SubSeq(segments, 1, Len(segments) - 1)
                          popped == Version(popped_segments, new_version.length)
                      IN  Returned(
                            [bumped.state EXCEPT !.versions =
                                Append([l.versions EXCEPT ![l.current_version + 1] = popped],
                                       popped)],
                            Some(last_char))

long_pop(l) ==
    LET bumped == bump_version(l)
        new_version == bumped.old_version
        segments == new_version.segments
    IN  IF segments = <<>>
        THEN Returned([bumped.state EXCEPT !.versions = Append(l.versions, new_version)],
                      None)
        ELSE LET last_segment == segments[Len(segments)]
                 s == as_str(last_segment, l.buffer)
             IN  IF ~s.ok \/ s.chars = <<>>
                 THEN Panicked(bumped.state, "no empty segments should be stored")
                 ELSE LET last_char == s.chars[Len(s.chars)]
                          last_char_len == len_utf8(last_char)
                          popped_segments ==
                              IF long_segment_len(last_segment) > last_char_len
                              THEN [segments EXCEPT ![Len(segments)].end =
                                        last_segment.end - last_char_len]
                              ELSE SubSeq(segments, 1, Len(segments) - 1)
                      IN  Returned(
                            [bumped.state EXCEPT !.versions = Append(l.versions,
                                Version(popped_segments, new_version.length))],
                            Some(last_char))

long_push(l, character) ==
    LET old_buffer_length == Len(l.buffer)
        buffer == l.buffer \o encode_utf8(character)
        new_buffer_length == Len(buffer)
        bumped == bump_version(l)
        old == bumped.old_version
    IN  Returned(
            [bumped.state EXCEPT
                !.buffer = buffer,
                !.versions = Append(l.versions,
                    Version(Append(old.segments,
                                   Segment(old_buffer_length, new_buffer_length)),
                            old.length + len_utf8(character)))],
            Unit)

long_push_str(l, suffix) ==
    LET old_buffer_length == Len(l.buffer)
        buffer == l.buffer \o suffix
        new_buffer_length == Len(buffer)
        bumped == bump_version(l)
        old == bumped.old_version
    IN  Returned(
            [bumped.state EXCEPT
                !.buffer = buffer,
                !.versions = Append(l.versions,
                    Version(Append(old.segments,
                                   Segment(old_buffer_length, new_buffer_length)),
                            old.length + Len(suffix)))],
            Unit)

\* [T]::repeat
RECURSIVE slice_repeat(_, _)
slice_repeat(segments, times) ==
    IF times = 0 THEN <<>> ELSE segments \o slice_repeat(segments, times - 1)

\* repeat that writes the repeated version over the current record
long_repeat_rewriting_current(l, times) ==
    LET old_version == l.versions[l.current_version + 1] IN
    Returned(
        [l EXCEPT !.versions[l.current_version + 1] =
            Version(slice_repeat(old_version.segments, times),
                    old_version.length * times)],
        Unit)

long_repeat(l, times) ==
    LET bumped == bump_version(l)
        old_version == bumped.old_version
    IN  Returned(
            [bumped.state EXCEPT
                !.versions = Append(l.versions,
                    Version(slice_repeat(old_version.segments, times),
                            old_version.length * times))],
            Unit)

long_remove(l, index) == Panicked(l, "not yet implemented")

\* the pushes of a cut or finished run of retained chars
push_some(segments, segment) ==
    IF segment = None THEN segments ELSE Append(segments, segment[2])

\* retain_chars whose cut leaves segment_begin on the rejected char instead
\* of after it: `segment_begin += segment_len`
RECURSIVE retain_chars_cut_before_rejected(_, _, _, _, _, _)
retain_chars_cut_before_rejected(chars, filter, segment_begin, run_len, segments, length) ==
    IF chars = <<>>
    THEN [segments |-> push_some(segments, try_from_of_length(segment_begin, run_len)),
          length |-> length]
    ELSE LET character == Head(chars)
             character_len == len_utf8(character)
         IN  IF character \in filter
             THEN retain_chars_cut_before_rejected(Tail(chars), filter, segment_begin,
                               run_len + character_len, segments, length)
             ELSE retain_chars_cut_before_rejected(Tail(chars), filter,
                               segment_begin + run_len, 0,
                               push_some(segments,
                                         try_from_of_length(segment_begin, run_len)),
                               length - character_len)

\* the inner loop of retain over the chars of one segment, then the push after it
RECURSIVE retain_chars(_, _, _, _, _, _)
retain_chars(chars, filter, segment_begin, run_len, segments, length) ==
    IF chars = <<>>
    THEN [segments |-> push_some(segments, try_from_of_length(segment_begin, run_len)),
          length |-> length]
    ELSE LET character == Head(chars)
             character_len == len_utf8(character)
         IN  IF character \in filter
             THEN retain_chars(Tail(chars), filter, segment_begin,
                               run_len + character_len, segments, length)
             ELSE retain_chars(Tail(chars), filter,
                               segment_begin + run_len + character_len, 0,
                               push_some(segments,
                                         try_from_of_length(segment_begin, run_len)),
                               length - character_len)

\* the outer loop of retain with the ranges kept of each segment pushed last
\* one first
RECURSIVE retain_segments_runs_reversed(_, _, _, _, _)
retain_segments_runs_reversed(old_segments, buffer, filter, segments, length) ==
    IF old_segments = <<>> THEN [ok |-> TRUE, segments |-> segments, length |-> length]
    ELSE LET segment == Head(old_segments)
             s == as_str(segment, buffer)
         IN  IF ~s.ok THEN [ok |-> FALSE, segments |-> segments, length |-> length]
             ELSE LET done == retain_chars(s.chars, filter, segment.begin, 0,
                                           <<>>, length)
                      runs == done.segments
                      reversed == [i \in 1 .. Len(runs) |-> runs[Len(runs) + 1 - i]]
                  IN  retain_segments_runs_reversed(Tail(old_segments), buffer, filter,
                                                    segments \o reversed, done.length)

\* the outer loop of retain over the segments of the old version
RECURSIVE retain_segments(_, _, _, _, _)
retain_segments(old_segments, buffer, filter, segments, length) ==
    IF old_segments = <<>>
    THEN [ok |-> TRUE, segments |-> segments, length |-> length]
    ELSE LET segment == Head(old_segments)
             s == as_str(segment, buffer)
         IN  IF ~s.ok THEN [ok |-> FALSE, segments |-> segments, length |-> length]
             ELSE LET done == retain_chars(s.chars, filter, segment.begin, 0,
                                           segments, length)
                  IN  retain_segments(Tail(old_segments), buffer, filter,
                                      done.segments, done.length)

\* filter is the set of chars the predicate accepts
long_retain(l, filter) ==
    LET old_version == l.versions[l.current_version + 1]
        res == retain_segments(old_version.segments, l.buffer, filter, <<>>,
                               old_version.length)
    IN  IF ~res.ok
        THEN Panicked(l, "the segment of version has been created incorrectly")
        ELSE Returned([l EXCEPT !.current_version = Len(l.versions),
                                !.versions = Append(l.versions,
                                    Version(res.segments, res.length))],
                      Unit)

long_insert(l, index, character) ==
    LET old_version == l.versions[l.current_version + 1] IN
    IF old_version.length < index
    THEN Panicked(l, "index exceeds current version's length")
    ELSE Panicked([l EXCEPT !.buffer = l.buffer \o encode_utf8(character)],
                  "not yet implemented")

long_insert_str(l, index, insertion) == Panicked(l, "not yet implemented")

----------------------------------------------------------------------------
(* cow.rs: CowPersistentString.  A String is its bytes; a closure is the    *)
(* record of what it captures, applied by `call`.                           *)

UndoTerminal == <<"Err", "UndoError::Terminal">>
RedoTerminal == <<"Err", "RedoError::Terminal">>

\* str::repeat
RECURSIVE str_repeat(_, _)
str_repeat(string, times) ==
    IF times = 0 THEN <<>> ELSE string \o str_repeat(string, times - 1)

\* the closures push_str and repeat hand to mutate_or_else
push_str_operation(suffix) == [kind |-> "push_str", suffix |-> suffix]
repeat_operation(times) == [kind |-> "repeat", times |-> times]

\* operation(current)
call(operation, current) ==
    IF operation.kind = "push_str"
    THEN current \o operation.suffix
    ELSE str_repeat(current, operation.times)

cow_new == [versions |-> <<>>, current_version |-> 0]

\* CowPersistentString::current_version: None for the empty state and for an
\* index `VecDeque::get` does not find
cow_current_version(c) ==
    IF c.current_version = 0 \/ c.current_version > Len(c.versions)
    THEN None
    ELSE Some(c.versions[c.current_version])

cow_snapshot(c) ==
    LET current == cow_current_version(c) IN
    [ok |-> TRUE, bytes |-> IF current = None THEN <<>> ELSE current[2]]

cow_len(c) == Len(cow_snapshot(c).bytes)

cow_is_empty(c) == cow_snapshot(c).bytes = <<>>

\* mutate_or_else with the loop of pop_back one round short
cow_mutate_or_else_popping_one_fewer(c, operation, fallback) ==
    LET kept == IF c.current_version < Len(c.versions)
                THEN SubSeq(c.versions, 1, c.current_version + 1)
                ELSE c.versions
        pushed == IF kept = <<>> THEN fallback ELSE call(operation, kept[Len(kept)])
    IN  Returned([versions |-> Append(kept, pushed),
                  current_version |-> c.current_version + 1],
                 Unit)

\* mutate_or_else without the loop of pop_back
cow_mutate_or_else_keeping_later_versions(c, operation, fallback) ==
    LET pushed == IF c.versions = <<>> THEN fallback
                  ELSE call(operation, c.versions[Len(c.versions)])
    IN  Returned([versions |-> Append(c.versions, pushed),
                  current_version |-> c.current_version + 1],
                 Unit)

\* `fallback` is the String the fallback closure returns.  The subtraction
\* `versions.len() - current_version` overflows when current_version is
\* past the stack: a panic with overflow checks on; with them off the loop
\* runs for the wrapped count and the call does not return either.
cow_mutate_or_else(c, operation, fallback) ==
    LET current_version == c.current_version IN
    IF current_version > Len(c.versions)
    THEN Panicked(c, "attempt to subtract with overflow")
    ELSE LET kept == SubSeq(c.versions, 1, current_version)
             pushed == IF kept = <<>> THEN fallback
                       ELSE call(operation, kept[Len(kept)])
         IN  Returned([versions |-> Append(kept, pushed),
                       current_version |-> current_version + 1],
                      Unit)

cow_push_str(c, suffix) == cow_mutate_or_else(c, push_str_operation(suffix), suffix)

cow_repeat(c, times) == cow_mutate_or_else(c, repeat_operation(times), <<>>)

\* undo back to the empty state
cow_undo_to_empty(c) ==
    IF c.current_version = 0
    THEN Returned(c, UndoTerminal)
    ELSE Returned([c EXCEPT !.current_version = 0], Ok)

cow_undo(c) ==
    IF c.current_version = 0
    THEN Returned(c, UndoTerminal)
    ELSE Returned([c EXCEPT !.current_version = c.current_version - 1], Ok)

\* redo with `<=` for `<`
cow_redo_past_newest(c) ==
    IF c.current_version <= Len(c.versions)
    THEN Returned([c EXCEPT !.current_version = c.current_version + 1], Ok)
    ELSE Returned(c, RedoTerminal)

cow_redo(c) ==
    IF c.current_version < Len(c.versions)
    THEN Returned([c EXCEPT !.current_version = c.current_version + 1], Ok)
    ELSE Returned(c, RedoTerminal)

----------------------------------------------------------------------------
(* delta.rs: Delta and DeltaPersistentString                                *)

DeltaPushStr(suffix) == [kind |-> "PushStr", suffix |-> suffix]
DeltaRepeat(times) == [kind |-> "Repeat", times |-> times]

\* Delta::apply
apply(d, string) ==
    IF d.kind = "PushStr" THEN string \o d.suffix ELSE str_repeat(string, d.times)

delta_new == [deltas |-> <<>>, current_version |-> 0]

\* the fold with the deltas taken from the newest down
RECURSIVE fold_deltas_reversed(_, _)
fold_deltas_reversed(deltas, count) ==
    IF count = 0 THEN <<>>
    ELSE apply(deltas[1], fold_deltas_reversed(Tail(deltas), count - 1))

\* the fold of generate over the first `count` deltas
RECURSIVE fold_deltas(_, _)
fold_deltas(deltas, count) ==
    IF count = 0 THEN <<>>
    ELSE apply(deltas[count], fold_deltas(deltas, count - 1))

\* DeltaPersistentString::generate: `take` stops at the end of the deque
generate(d) ==
    fold_deltas(d.deltas,
                IF d.current_version < Len(d.deltas)
                THEN d.current_version ELSE Len(d.deltas))

delta_snapshot(d) == [ok |-> TRUE, bytes |-> generate(d)]

delta_len(d) == IF d.current_version > 0 THEN Len(generate(d)) ELSE 0

delta_is_empty(d) == IF d.current_version > 0 THEN generate(d) = <<>> ELSE TRUE

\* the subtraction `deltas.len() - current_version` overflows as in
\* CowPersistentString::mutate_or_else
push_delta(d, pushed) ==
    LET current_version == d.current_version IN
    IF current_version > Len(d.deltas)
    THEN Panicked(d, "attempt to subtract with overflow")
    ELSE Returned([deltas |-> Append(SubSeq(d.deltas, 1, current_version), pushed),
                   current_version |-> current_version + 1],
                  Unit)

delta_push_str(d, string) == push_delta(d, DeltaPushStr(string))

delta_repeat(d, times) == push_delta(d, DeltaRepeat(times))

delta_undo(d) ==
    IF d.current_version = 0
    THEN Returned(d, UndoTerminal)
    ELSE Returned([d EXCEPT !.current_version = d.current_version - 1], Ok)

\* delta's redo with `<=` for `<`
delta_redo_past_newest(d) ==
    IF d.current_version <= Len(d.deltas)
    THEN Returned([d EXCEPT !.current_version = d.current_version + 1], Ok)
    ELSE Returned(d, RedoTerminal)

delta_redo(d) ==
    IF d.current_version < Len(d.deltas)
    THEN Returned([d EXCEPT !.current_version = d.current_version + 1], Ok)
    ELSE Returned(d, RedoTerminal)

----------------------------------------------------------------------------
(* The trait surface (lib.rs), dispatched on the strategy under test        *)

Strategies == {"rope", "long_buffer"}

\* the arguments push_str and insert_str are driven with
Strs == {Str(<<>>), Str(<<97, 233>>), Str(<<233, 97>>)}

\* the predicates retain is driven with, each as the set of chars it accepts
Filters == SUBSET Chars

\* A call whose body is `todo!()` reads none of its arguments: one input each.
\* remove is unimplemented in both strategies, retain in the rope, insert_str
\* in the segment list; insert of the segment list checks its index, grows the
\* buffer and then reaches `todo!()`.
RemoveIndices == {0}
RetainFilters == IF strategy = "rope" THEN {Chars} ELSE Filters
InsertStrs == IF strategy = "rope" THEN Strs ELSE {Str(<<97, 233>>)}
InsertIndices(length) == IF strategy = "rope" THEN 0 .. length + 1 ELSE {0, length + 1}

Engine == IF strategy = "rope" THEN rope ELSE long

version(e) == IF strategy = "rope" THEN rope_version(e) ELSE long_version(e)

latest_version(e) ==
    IF strategy = "rope" THEN rope_latest_version(e) ELSE long_latest_version(e)

snapshot_at(e, index) ==
    IF strategy = "rope" THEN rope_snapshot_at(e, index) ELSE long_snapshot_at(e, index)

snapshot(e) == IF strategy = "rope" THEN rope_snapshot(e) ELSE long_snapshot(e)

len(e) == IF strategy = "rope" THEN rope_len(e) ELSE long_len(e)

is_empty(e) == IF strategy = "rope" THEN rope_is_empty(e) ELSE long_is_empty(e)

try_switch_version(e, v) ==
    IF strategy = "rope" THEN rope_try_switch_version(e, v)
    ELSE long_try_switch_version(e, v)

pop(e) == IF strategy = "rope" THEN rope_pop(e) ELSE long_pop(e)

push(e, character) ==
    IF strategy = "rope" THEN rope_push(e, character) ELSE long_push(e, character)

push_str(e, suffix) ==
    IF strategy = "rope" THEN rope_push_str(e, suffix) ELSE long_push_str(e, suffix)

repeat(e, times) ==
    IF strategy = "rope" THEN rope_repeat(e, times) ELSE long_repeat(e, times)

remove(e, index) ==
    IF strategy = "rope" THEN rope_remove(e, index) ELSE long_remove(e, index)

retain(e, filter) ==
    IF strategy = "rope" THEN rope_retain(e, filter) ELSE long_retain(e, filter)

insert(e, index, character) ==
    IF strategy = "rope" THEN rope_insert(e, index, character)
    ELSE long_insert(e, index, character)

insert_str(e, index, insertion) ==
    IF strategy = "rope" THEN rope_insert_str(e, index, insertion)
    ELSE long_insert_str(e, index, insertion)

----------------------------------------------------------------------------
(* The state machine: one action per call of the trait                      *)

NoCall == [op |-> "none"]

Init ==
    /\ strategy \in Strategies
    /\ debug \in BOOLEAN
    \* long_buffer.rs has one debug assertion, on the Option of a pop from a
    \* Vec it has just read the last element of; both builds behave alike
    /\ strategy = "long_buffer" => debug
    /\ rope = rope_new
    /\ long = long_new
    /\ cow = cow_new
    /\ delta = delta_new
    /\ panicked = FALSE
    /\ last = [op |-> "new", args |-> <<>>, ret |-> Unit, pre |-> NoCall]
    /\ observed = <<[ok |-> TRUE, bytes |-> <<>>]>>

\* the text of the current version, <<>> if snapshot() would panic
Text == LET s == snapshot(Engine) IN IF s.ok THEN s.bytes ELSE <<>>

\* what a mutation records of the state it was called in
Pre ==
    [version |-> version(Engine),
     latest |-> latest_version(Engine),
     snapshot |-> snapshot(Engine),
     len |-> len(Engine),
     engine |-> Engine]

\* a run stays within the bounds of the model: at most max_version handles
\* after version 0, texts of at most MaxLen bytes
WithinBoundsOf(out, after, max_version) ==
    IF ~out.ok THEN TRUE
    ELSE /\ latest_version(out.state) <= max_version
         /\ IF after.ok THEN Len(after.bytes) <= MaxLen ELSE TRUE

WithinBounds(out, after) == WithinBoundsOf(out, after, MaxVersion)

\* the call `op(args)` ends as `result`, in a run of at most max_version
\* allocations
CallWithin(op, args, result, max_version) ==
    LET out == result
        after == IF out.ok THEN snapshot(out.state) ELSE [ok |-> FALSE, bytes |-> <<>>]
    IN  /\ WithinBoundsOf(out, after, max_version)
        /\ IF strategy = "rope"
           THEN rope' = out.state /\ long' = long
           ELSE long' = out.state /\ rope' = rope
        /\ panicked' = ~out.ok
        /\ last' = [op |-> op, args |-> args, ret |-> out.ret, pre |-> Pre]
        /\ observed' =
             IF out.ok /\ latest_version(out.state) > latest_version(Engine)
             THEN Append(observed, after)
             ELSE observed
        /\ UNCHANGED <<strategy, debug, cow, delta>>

Call(op, args, result) == CallWithin(op, args, result, MaxVersion)

SwitchVersion ==
    /\ ~panicked
    /\ \E v \in 0 .. latest_version(Engine) + 1 :
        LET out == try_switch_version(Engine, v) IN
        /\ IF strategy = "rope"
           THEN rope' = out.state /\ long' = long
           ELSE long' = out.state /\ rope' = rope
        /\ last' = [op |-> "try_switch_version", args |-> <<v>>, ret |-> out.ret,
                    pre |-> NoCall]
        /\ UNCHANGED <<strategy, debug, cow, delta, panicked, observed>>

Pop ==
    /\ ~panicked
    /\ Call("pop", <<>>, pop(Engine))

Push ==
    /\ ~panicked
    /\ \E c \in Chars : Call("push", <<c>>, push(Engine, c))

PushStr ==
    /\ ~panicked
    /\ \E s \in Strs : Call("push_str", <<s>>, push_str(Engine, s))

Repeat ==
    /\ ~panicked
    /\ \E times \in 0 .. MaxTimes : Call("repeat", <<times>>, repeat(Engine, times))

Remove ==
    /\ ~panicked
    /\ \E index \in RemoveIndices : Call("remove", <<index>>, remove(Engine, index))

Retain ==
    /\ ~panicked
    /\ \E filter \in RetainFilters : Call("retain", <<filter>>, retain(Engine, filter))

Insert ==
    /\ ~panicked
    /\ \E index \in InsertIndices(Len(Text)), c \in Chars :
        Call("insert", <<index, c>>, insert(Engine, index, c))

InsertStr ==
    /\ ~panicked
    /\ \E index \in InsertIndices(Len(Text)), s \in InsertStrs :
        Call("insert_str", <<index, s>>, insert_str(Engine, index, s))

Next ==
    \/ SwitchVersion
    \/ Pop
    \/ Push
    \/ PushStr
    \/ Repeat
    \/ Remove
    \/ Retain
    \/ Insert
    \/ InsertStr

Spec == Init /\ [][Next]_vars

----------------------------------------------------------------------------
(* Longer runs of the calls that append and shrink: push, pop and repeat    *)
(* alone, from new(), up to MaxDeepVersion allocations.                     *)

DeepPop ==
    /\ ~panicked
    /\ CallWithin("pop", <<>>, pop(Engine), MaxDeepVersion)

DeepPush ==
    /\ ~panicked
    /\ \E c \in Chars : CallWithin("push", <<c>>, push(Engine, c), MaxDeepVersion)

DeepRepeat ==
    /\ ~panicked
    /\ \E times \in 0 .. MaxTimes :
        CallWithin("repeat", <<times>>, repeat(Engine, times), MaxDeepVersion)

NextDeep ==
    \/ DeepPop
    \/ DeepPush
    \/ DeepRepeat

SpecDeep == Init /\ [][NextDeep]_vars

----------------------------------------------------------------------------
(* retain on the segment list after push_str of strings of up to three      *)
(* chars, so that one segment can be cut into more than one range.          *)

\* the arguments push_str is driven with here
RetainStrs == Strs \cup {Str(<<97, 233, 97>>)}

InitRetain == Init /\ strategy = "long_buffer"

RetainPushStr ==
    /\ ~panicked
    /\ \E s \in RetainStrs :
        CallWithin("push_str", <<s>>, push_str(Engine, s), MaxDeepVersion)

RetainRetain ==
    /\ ~panicked
    /\ \E filter \in RetainFilters :
        CallWithin("retain", <<filter>>, retain(Engine, filter), MaxDeepVersion)

NextRetain ==
    \/ RetainPushStr
    \/ RetainRetain

SpecRetain == InitRetain /\ [][NextRetain]_vars

----------------------------------------------------------------------------
(* The rope and the segment list side by side: every call is made on both,  *)
(* from new(), and `last.ret` holds what each of them returned.             *)

InitBoth ==
    /\ strategy = "both"
    /\ debug \in BOOLEAN
    /\ rope = rope_new
    /\ long = long_new
    /\ cow = cow_new
    /\ delta = delta_new
    /\ panicked = FALSE
    /\ last = [op |-> "new", args |-> <<>>, ret |-> [rope |-> Unit, long |-> Unit],
               pre |-> NoCall]
    /\ observed = <<[ok |-> TRUE, bytes |-> <<>>]>>

\* the text a returned call left, within the bound on texts
TextWithinBounds(out, after) ==
    (out.ok /\ after.ok) => Len(after.bytes) <= MaxLen

\* the call `op(args)` ends as rope_result on the rope and as long_result on
\* the segment list, in a run of at most MaxVersion allocations on either
BothCall(op, args, rope_result, long_result) ==
    /\ rope_result.ok => rope_latest_version(rope_result.state) <= MaxVersion
    /\ long_result.ok => long_latest_version(long_result.state) <= MaxVersion
    /\ TextWithinBounds(rope_result, rope_snapshot(rope_result.state))
    /\ TextWithinBounds(long_result, long_snapshot(long_result.state))
    /\ rope' = rope_result.state
    /\ long' = long_result.state
    /\ panicked' = (~rope_result.ok \/ ~long_result.ok)
    /\ last' = [op |-> op, args |-> args,
                ret |-> [rope |-> rope_result.ret, long |-> long_result.ret],
                pre |-> NoCall]
    /\ UNCHANGED <<strategy, debug, cow, delta, observed>>

BothSwitchVersion ==
    /\ ~panicked
    /\ \E v \in 0 .. rope_latest_version(rope) + 1 :
        BothCall("try_switch_version", <<v>>,
                 rope_try_switch_version(rope, v), long_try_switch_version(long, v))

BothPop ==
    /\ ~panicked
    /\ BothCall("pop", <<>>, rope_pop(rope), long_pop(long))

BothPush ==
    /\ ~panicked
    /\ \E c \in Chars : BothCall("push", <<c>>, rope_push(rope, c), long_push(long, c))

BothPushStr ==
    /\ ~panicked
    /\ \E s \in Strs :
        BothCall("push_str", <<s>>, rope_push_str(rope, s), long_push_str(long, s))

BothRepeat ==
    /\ ~panicked
    /\ \E times \in 0 .. MaxTimes :
        BothCall("repeat", <<times>>, rope_repeat(rope, times), long_repeat(long, times))

NextBoth ==
    \/ BothSwitchVersion
    \/ BothPop
    \/ BothPush
    \/ BothPushStr
    \/ BothRepeat

SpecBoth == InitBoth /\ [][NextBoth]_vars

----------------------------------------------------------------------------
(* The strategies with undo and redo (cow.rs, delta.rs): one action per     *)
(* call of push_str, repeat, undo and redo, from new().                     *)

UndoStrategies == {"cow", "delta"}

\* the arguments push_str is driven with here: those of the other strategies
\* and a one-byte string, which repeat can copy within the bound on texts
HistoryStrs == Strs \cup {Str(<<97>>)}

\* the string under test
History == IF strategy = "cow" THEN cow ELSE delta

\* what it stores: the stack of versions, or the stack of deltas
Stored(h) == IF strategy = "cow" THEN h.versions ELSE h.deltas

history_snapshot(h) == IF strategy = "cow" THEN cow_snapshot(h) ELSE delta_snapshot(h)

history_push_str(h, suffix) ==
    IF strategy = "cow" THEN cow_push_str(h, suffix) ELSE delta_push_str(h, suffix)

history_repeat(h, times) ==
    IF strategy = "cow" THEN cow_repeat(h, times) ELSE delta_repeat(h, times)

history_undo(h) == IF strategy = "cow" THEN cow_undo(h) ELSE delta_undo(h)

history_redo(h) == IF strategy = "cow" THEN cow_redo(h) ELSE delta_redo(h)

InitUndo ==
    /\ strategy \in UndoStrategies
    \* the debug assertions of cow.rs and delta.rs are on the Option of a
    \* pop_back counted from the deque's own length; both builds behave alike
    /\ debug = TRUE
    /\ rope = rope_new
    /\ long = long_new
    /\ cow = cow_new
    /\ delta = delta_new
    /\ panicked = FALSE
    /\ last = [op |-> "new", args |-> <<>>, ret |-> Unit, pre |-> NoCall]
    /\ observed = <<[ok |-> TRUE, bytes |-> <<>>]>>

\* the call before the one being made, with the text it was made on
PreviousCall ==
    [op |-> last.op, args |-> last.args, ret |-> last.ret,
     state |-> IF last.pre = NoCall THEN History ELSE last.pre.state,
     snapshot |-> IF last.pre = NoCall THEN <<>> ELSE last.pre.snapshot]

\* the call `op(args)` on the string under test ends as `result`, in a run
\* that stores at most MaxVersion entries of at most MaxLen bytes
HistoryCall(op, args, result) ==
    LET out == result IN
    /\ out.ok => /\ Len(Stored(out.state)) <= MaxVersion
                 /\ Len(history_snapshot(out.state).bytes) <= MaxLen
    /\ IF strategy = "cow"
       THEN cow' = out.state /\ delta' = delta
       ELSE delta' = out.state /\ cow' = cow
    /\ panicked' = ~out.ok
    /\ last' = [op |-> op, args |-> args, ret |-> out.ret,
                pre |-> [state |-> History,
                         snapshot |-> history_snapshot(History).bytes,
                         previous |-> PreviousCall]]
    /\ UNCHANGED <<strategy, debug, rope, long, observed>>

HistoryPushStr ==
    /\ ~panicked
    /\ \E s \in HistoryStrs : HistoryCall("push_str", <<s>>, history_push_str(History, s))

HistoryRepeat ==
    /\ ~panicked
    /\ \E times \in 0 .. MaxTimes :
        HistoryCall("repeat", <<times>>, history_repeat(History, times))

Undo ==
    /\ ~panicked
    /\ HistoryCall("undo", <<>>, history_undo(History))

Redo ==
    /\ ~panicked
    /\ HistoryCall("redo", <<>>, history_redo(History))

NextUndo ==
    \/ HistoryPushStr
    \/ HistoryRepeat
    \/ Undo
    \/ Redo

SpecUndo == InitUndo /\ [][NextUndo]_vars

----------------------------------------------------------------------------
(* CowPersistentString and DeltaPersistentString side by side: every call   *)
(* is made on both, from new().                                             *)

InitUndoBoth ==
    /\ strategy = "cow and delta"
    /\ debug = TRUE
    /\ rope = rope_new
    /\ long = long_new
    /\ cow = cow_new
    /\ delta = delta_new
    /\ panicked = FALSE
    /\ last = [op |-> "new", args |-> <<>>, ret |-> [cow |-> Unit, delta |-> Unit],
               pre |-> NoCall]
    /\ observed = <<[ok |-> TRUE, bytes |-> <<>>]>>

\* the call `op(args)` ends as cow_result on the one and as delta_result on
\* the other, in a run that stores at most MaxVersion entries of at most
\* MaxLen bytes in either
UndoBothCall(op, args, cow_result, delta_result) ==
    /\ cow_result.ok =>
          /\ Len(cow_result.state.versions) <= MaxVersion
          /\ Len(cow_snapshot(cow_result.state).bytes) <= MaxLen
    /\ delta_result.ok =>
          /\ Len(delta_result.state.deltas) <= MaxVersion
          /\ Len(delta_snapshot(delta_result.state).bytes) <= MaxLen
    /\ cow' = cow_result.state
    /\ delta' = delta_result.state
    /\ panicked' = (~cow_result.ok \/ ~delta_result.ok)
    /\ last' = [op |-> op, args |-> args,
                ret |-> [cow |-> cow_result.ret, delta |-> delta_result.ret],
                pre |-> [cow |-> cow, delta |-> delta]]
    /\ UNCHANGED <<strategy, debug, rope, long, observed>>

UndoBothPushStr ==
    /\ ~panicked
    /\ \E s \in HistoryStrs :
        UndoBothCall("push_str", <<s>>, cow_push_str(cow, s), delta_push_str(delta, s))

UndoBothRepeat ==
    /\ ~panicked
    /\ \E times \in 0 .. MaxTimes :
        UndoBothCall("repeat", <<times>>, cow_repeat(cow, times),
                     delta_repeat(delta, times))

UndoBothUndo ==
    /\ ~panicked
    /\ UndoBothCall("undo", <<>>, cow_undo(cow), delta_undo(delta))

UndoBothRedo ==
    /\ ~panicked
    /\ UndoBothCall("redo", <<>>, cow_redo(cow), delta_redo(delta))

NextUndoBoth ==
    \/ UndoBothPushStr
    \/ UndoBothRepeat
    \/ UndoBothUndo
    \/ UndoBothRedo

SpecUndoBoth == InitUndoBoth /\ [][NextUndoBoth]_vars

----------------------------------------------------------------------------
(* What the trait's documentation says a call does to a text, on the        *)
(* sequence of its chars; the properties below compare the code with it.    *)

Mutations ==
    {"pop", "push", "push_str", "repeat", "remove", "retain", "insert", "insert_str"}

\* the chars of a snapshot that did not panic
CharsOf(s) == from_utf8(s.bytes).chars

RECURSIVE Copies(_, _)
Copies(cs, n) == IF n = 0 THEN <<>> ELSE cs \o Copies(cs, n - 1)

RECURSIVE Kept(_, _)
Kept(cs, filter) ==
    IF cs = <<>> THEN <<>>
    ELSE (IF Head(cs) \in filter THEN <<Head(cs)>> ELSE <<>>) \o Kept(Tail(cs), filter)

Inserted(cs, index, ins) ==
    SubSeq(cs, 1, index) \o ins \o SubSeq(cs, index + 1, Len(cs))

Expected(op, args, cs) ==
    CASE op = "push" -> Append(cs, args[1])
      [] op = "push_str" -> cs \o from_utf8(args[1]).chars
      [] op = "pop" -> SubSeq(cs, 1, Len(cs) - 1)
      [] op = "repeat" -> Copies(cs, args[1])
      [] op = "retain" -> Kept(cs, args[1])
      [] op = "insert" -> Inserted(cs, args[1], <<args[2]>>)
      [] op = "insert_str" -> Inserted(cs, args[1], from_utf8(args[2]).chars)
      [] OTHER -> SubSeq(cs, 1, args[1]) \o SubSeq(cs, args[1] + 2, Len(cs))

\* snapshot() returning the text made of the chars cs
Text_(cs) == [ok |-> TRUE, bytes |-> Str(cs)]

\* the last call was a mutation, and it returned
Mutated == ~panicked /\ last.op \in Mutations

----------------------------------------------------------------------------
(* C1: rope: whatever calls were made, switching to any allocated handle v  *)
(* succeeds and snapshot() then gives what snapshot() gave right after v    *)
(* was allocated.                                                           *)
C1_RopeVersionsKeepTheirSnapshot ==
    strategy = "rope" =>
        \A v \in 0 .. rope_latest_version(rope) :
            LET switched == rope_try_switch_version(rope, v) IN
            /\ switched.ret = Ok
            /\ rope_snapshot(switched.state) = observed[v + 1]

\* a rope that forked: its last mutation ran at an older version than the
\* latest, and the versions hold three different texts
C1_Witness ==
    /\ strategy = "rope"
    /\ Mutated
    /\ last.pre.version < last.pre.latest
    /\ rope_latest_version(rope) = 2
    /\ rope.current_version = 2
    /\ \A v \in 1 .. 3 : observed[v].ok
    /\ Cardinality({observed[v] : v \in 1 .. 3}) = 3

(* C2: segment list: no step changes the record of an allocated version,    *)
(* and after every step switching to any handle v allocated before it gives *)
(* the snapshot observed right after v was allocated.                       *)
C2_LongVersionsAreAdditiveOnly ==
    [][strategy = "long_buffer" =>
          \A v \in 0 .. long_latest_version(long) :
              /\ long'.versions[v + 1] = long.versions[v + 1]
              /\ LET switched == long_try_switch_version(long', v) IN
                 /\ switched.ret = Ok
                 /\ long_snapshot(switched.state) = observed[v + 1]]_vars

\* a segment list whose retain kept a part of the text of the version before
C2_Witness ==
    /\ strategy = "long_buffer"
    /\ Mutated
    /\ last.op = "retain"
    /\ long_latest_version(long) = 2
    /\ long_snapshot(long).bytes # <<>>
    /\ long_snapshot(long) # last.pre.snapshot
    /\ long_snapshot_at(long, last.pre.version) = last.pre.snapshot

(* C3: a mutation that returns after the engine was switched to a version   *)
(* older than the latest allocates the handle latest + 1, leaves the engine *)
(* at it with the text the mutation makes of the older version's text, and  *)
(* leaves the snapshot of the handle that was the latest as it was.         *)
C3_MutationForksFromCurrent ==
    (Mutated /\ last.pre.version < last.pre.latest /\ last.pre.snapshot.ok) =>
        /\ latest_version(Engine) = last.pre.latest + 1
        /\ version(Engine) = last.pre.latest + 1
        /\ snapshot(Engine) =
               Text_(Expected(last.op, last.args, CharsOf(last.pre.snapshot)))
        /\ snapshot_at(Engine, last.pre.latest) = observed[last.pre.latest + 1]

(* C4: after every mutation that returns, version() is latest_version().    *)
C4_MutationLeavesEngineAtLatest ==
    Mutated => version(Engine) = latest_version(Engine)

(* C5: try_switch_version(v) returns Ok exactly when v <= latest_version();  *)
(* otherwise it returns InvalidVersion(v) and changes nothing of the engine. *)
C5_SwitchFailsExactlyPastLatest ==
    [][last'.op = "try_switch_version" =>
          LET v == last'.args[1] IN
          /\ (last'.ret = Ok) <=> (v <= latest_version(Engine))
          /\ (v > latest_version(Engine)) =>
                /\ last'.ret = InvalidVersion(v)
                /\ rope' = rope
                /\ long' = long]_vars

\* a switch to the handle after the latest was refused, with the engine at an
\* older version than the latest
C5_Witness ==
    /\ last.op = "try_switch_version"
    /\ last.ret = InvalidVersion(latest_version(Engine) + 1)
    /\ latest_version(Engine) >= 1
    /\ version(Engine) < latest_version(Engine)

(* C6: a try_switch_version(v) that returns Ok sets current_version to v    *)
(* and changes nothing else: the buffer, the arena and the registry (so the *)
(* latest version too) are as they were.                                    *)
C6_SwitchOnlyMovesCurrent ==
    [][(last'.op = "try_switch_version" /\ last'.ret = Ok) =>
          /\ rope' = IF strategy = "rope"
                     THEN [rope EXCEPT !.current_version = last'.args[1]] ELSE rope
          /\ long' = IF strategy = "rope"
                     THEN long ELSE [long EXCEPT !.current_version = last'.args[1]]
          /\ latest_version(Engine)' = latest_version(Engine)
          /\ observed' = observed]_vars

\* a switch from the latest of three versions back to version 0
C6_Witness ==
    /\ last.op = "try_switch_version"
    /\ last.ret = Ok
    /\ latest_version(Engine) = 2
    /\ version(Engine) = 0
    /\ snapshot_at(Engine, 2).bytes # <<>>

(* C7: rope: pop() on a non-empty current text does not panic, returns the  *)
(* last char of the text and leaves the text without it.                    *)
C7_RopePopRemovesLastChar ==
    (/\ strategy = "rope"
     /\ last.op = "pop"
     /\ last.pre.snapshot.ok
     /\ last.pre.snapshot.bytes # <<>>) =>
        LET cs == CharsOf(last.pre.snapshot) IN
        /\ ~panicked
        /\ last.ret = Some(cs[Len(cs)])
        /\ rope_snapshot(rope) = Text_(Expected("pop", <<>>, cs))

(* C8: segment list: pop() on a non-empty current text does not panic,      *)
(* returns the last char and leaves the text without exactly that char.     *)
C8_LongPopRemovesLastChar ==
    (/\ strategy = "long_buffer"
     /\ last.op = "pop"
     /\ last.pre.snapshot.ok
     /\ last.pre.snapshot.bytes # <<>>) =>
        LET cs == CharsOf(last.pre.snapshot) IN
        /\ ~panicked
        /\ last.ret = Some(cs[Len(cs)])
        /\ long_snapshot(long) = Text_(Expected("pop", <<>>, cs))

(* C9: a pop() called right after a push(c) does not panic, returns Some(c) *)
(* and leaves the snapshot that was there before the push.                  *)
C9_PopUndoesPush ==
    [][(~panicked /\ last.op = "push" /\ last'.op = "pop") =>
          /\ ~panicked'
          /\ last'.ret = Some(last.args[1])
          /\ snapshot(Engine)' = last.pre.snapshot]_vars

(* C10: in every state no call has panicked in, len() is the number of      *)
(* UTF-8 bytes of snapshot() and is_empty() holds exactly when len() is 0.  *)
C10_LenIsSnapshotByteLength ==
    (~panicked /\ snapshot(Engine).ok) =>
        /\ len(Engine) = Len(snapshot(Engine).bytes)
        /\ is_empty(Engine) <=> (len(Engine) = 0)

(* C11: pop() called on an empty current text returns None and still        *)
(* allocates: latest_version() grows by one, the engine is at the new       *)
(* handle, and the new handle's snapshot is empty.                          *)
C11_PopOnEmptyStillAllocates ==
    (last.op = "pop" /\ last.pre.snapshot = Text_(<<>>)) =>
        /\ ~panicked
        /\ last.ret = None
        /\ latest_version(Engine) = last.pre.latest + 1
        /\ version(Engine) = last.pre.latest + 1
        /\ snapshot(Engine) = Text_(<<>>)

\* the last call is one the documentation says changes no text: push_str(""),
\* insert_str(i, "") at a char index of the text, repeat(1), repeat(n) on the
\* empty text, retain(always true)
TextPreserving ==
    /\ last.op \in Mutations
    /\ last.pre.snapshot.ok
    /\ \/ last.op = "push_str" /\ last.args[1] = <<>>
       \/ /\ last.op = "insert_str"
          /\ last.args[2] = <<>>
          /\ last.args[1] <= Len(CharsOf(last.pre.snapshot))
       \/ last.op = "repeat" /\ last.args[1] = 1
       \/ last.op = "repeat" /\ last.pre.snapshot.bytes = <<>>
       \/ last.op = "retain" /\ last.args[1] = Chars

(* C12: a call that changes no text (push_str(""), insert_str(i, ""),       *)
(* repeat(1), repeat(n) on the empty text, retain(always true)) returns and *)
(* allocates exactly the handle latest_version() + 1, a handle no earlier   *)
(* version has, with the snapshot of the version it was called on.          *)
C12_TextPreservingCallsAllocate ==
    TextPreserving =>
        /\ ~panicked
        /\ latest_version(Engine) = last.pre.latest + 1
        /\ version(Engine) = last.pre.latest + 1
        /\ Len(observed) = last.pre.latest + 2
        /\ snapshot(Engine) = last.pre.snapshot

(* C13: repeat(n) with n >= 1 on a non-empty current text t returns, and the *)
(* new version has len() = n * (the bytes of t) and the snapshot t repeated  *)
(* n times.                                                                  *)
C13_RepeatConcatenatesCopies ==
    (/\ last.op = "repeat"
     /\ last.args[1] >= 1
     /\ last.pre.snapshot.ok
     /\ last.pre.snapshot.bytes # <<>>) =>
        /\ ~panicked
        /\ len(Engine) = last.args[1] * Len(last.pre.snapshot.bytes)
        /\ snapshot(Engine) =
               Text_(Copies(CharsOf(last.pre.snapshot), last.args[1]))

\* the last call is a rope insert or insert_str on a text of cs chars
RopeInsertCalled ==
    /\ strategy = "rope"
    /\ last.op \in {"insert", "insert_str"}
    /\ last.pre.snapshot.ok

(* C14: rope: insert_str(i, s) with i at most the number of chars of the    *)
(* current text t returns and leaves the first i chars of t, then s, then   *)
(* the rest of t; insert(i, c) does what insert_str(i, UTF-8 of c) does.    *)
C14_RopeInsertAtCharIndex ==
    (RopeInsertCalled /\ last.args[1] <= Len(CharsOf(last.pre.snapshot))) =>
        /\ ~panicked
        /\ rope_snapshot(rope) =
               Text_(Expected(last.op, last.args, CharsOf(last.pre.snapshot)))

(* C15: rope: insert_str(i, s) and insert(i, c) panic exactly when i is     *)
(* greater than the number of chars of the current text.                    *)
C15_RopeInsertPanicsExactlyPastCharCount ==
    RopeInsertCalled =>
        (panicked <=> last.args[1] > Len(CharsOf(last.pre.snapshot)))

\* the segments the engine holds: of every leaf of the arena, of every
\* version of the segment list
HeldSegments ==
    IF strategy = "rope"
    THEN {rope.nodes[a].body.segment :
            a \in {b \in 1 .. Len(rope.nodes) : rope.nodes[b].body.kind = "Leaf"}}
    ELSE UNION {{long.versions[v].segments[k] :
                    k \in 1 .. Len(long.versions[v].segments)} :
                v \in 1 .. Len(long.versions)}

(* C16: every segment held by a rope leaf or by a version of the segment    *)
(* list is a range of whole scalar values of the buffer: as_str succeeds    *)
(* on it.                                                                   *)
C16_SegmentsAreUtf8 ==
    \A segment \in HeldSegments :
        LET buffer == IF strategy = "rope" THEN rope.buffer ELSE long.buffer
        IN  as_str(segment, buffer).ok

(* C17: segment list: retain(p) on a current text t returns, allocates the  *)
(* handle latest_version() + 1 and leaves the engine at it with exactly the *)
(* chars of t that p accepts, in their order: all of t when p accepts every *)
(* char, the empty text when it accepts none.                               *)
C17_LongRetainKeepsAccepted ==
    (/\ strategy = "long_buffer"
     /\ last.op = "retain"
     /\ last.pre.snapshot.ok) =>
        LET cs == CharsOf(last.pre.snapshot) IN
        /\ ~panicked
        /\ long_latest_version(long) = last.pre.latest + 1
        /\ long_version(long) = last.pre.latest + 1
        /\ long_snapshot(long) = Text_(Kept(cs, last.args[1]))
        /\ last.args[1] = Chars => long_snapshot(long) = last.pre.snapshot
        /\ last.args[1] = {} => long_snapshot(long) = Text_(<<>>)

\* retain dropped the first char of a two-char text and kept the second
C17_Witness ==
    /\ strategy = "long_buffer"
    /\ ~panicked
    /\ last.op = "retain"
    /\ last.args[1] = {233}
    /\ last.pre.snapshot = Text_(<<97, 233>>)
    /\ long_snapshot(long) = Text_(<<233>>)

(* C18: new() leaves the engine at version 0 = latest_version() with the    *)
(* empty text; in every reachable state version() is a handle of the        *)
(* registry (0 .. latest_version()) and handle 0 has the empty snapshot.    *)
C18_CurrentIsAHandleAndZeroIsEmpty ==
    /\ last.op = "new" =>
          /\ version(Engine) = 0
          /\ latest_version(Engine) = 0
          /\ snapshot(Engine) = Text_(<<>>)
          /\ is_empty(Engine)
    /\ version(Engine) \in 0 .. latest_version(Engine)
    /\ snapshot_at(Engine, 0) = Text_(<<>>)

----------------------------------------------------------------------------
(* cow.rs and delta.rs: mutation after undo, and the ends of the history    *)

\* the last call was push_str or repeat on a string with undo and redo
HistoryMutated ==
    /\ strategy \in UndoStrategies
    /\ last.op \in {"push_str", "repeat"}

\* ... issued while current was behind the newest stored entry
MutatedBehindNewest ==
    /\ HistoryMutated
    /\ last.pre.state.current_version < Len(Stored(last.pre.state))

\* the bytes `times` copies of `bytes` have at position i
RepeatedByte(bytes, i) == bytes[((i - 1) % Len(bytes)) + 1]

\* the text the last mutation is to produce from the text it was called on
MutationApplied(before, after) ==
    IF last.op = "push_str" THEN after = before \o last.args[1]
    ELSE /\ Len(after) = Len(before) * last.args[1]
         /\ \A i \in 1 .. Len(after) : after[i] = RepeatedByte(before, i)

C20_UndoAndRedoStopAtTheEnds ==
    strategy \in UndoStrategies =>
        /\ (last.op = "undo" /\ last.pre.state.current_version = 0) =>
              /\ ~panicked
              /\ last.ret = UndoTerminal
              /\ History = last.pre.state
        /\ (last.op = "redo"
              /\ last.pre.state.current_version = Len(Stored(last.pre.state))) =>
              /\ ~panicked
              /\ last.ret = RedoTerminal
              /\ History = last.pre.state

\* redo() was refused at the newest of two stored versions
C20_Witness ==
    /\ strategy \in UndoStrategies
    /\ last.op = "redo"
    /\ last.ret = RedoTerminal
    /\ last.pre.state.current_version = 2
    /\ Len(Stored(History)) = 2

\* the last call was made right after a push_str or repeat that was itself
\* issued after undo, with current behind the newest stored version
CalledAfterMutationBehindNewest ==
    /\ last.pre.previous.op \in {"push_str", "repeat"}
    /\ last.pre.previous.state.current_version
         < Len(Stored(last.pre.previous.state))

(* C21: CowPersistentString: a redo() that follows a push_str or repeat      *)
(* issued after successful undo() calls returns Err(RedoError::Terminal)    *)
(* and moves nothing: the mutation is the newest version, and the undone    *)
(* versions are not reached.                                                *)
C21_CowRedoAfterMutationIsTerminal ==
    (strategy = "cow" /\ last.op = "redo" /\ CalledAfterMutationBehindNewest) =>
        /\ last.ret = RedoTerminal
        /\ cow = last.pre.state
        /\ cow.current_version = Len(cow.versions)
        /\ cow.current_version = last.pre.previous.state.current_version + 1

\* redo() refused after push_str issued at version 1 of 2
C21_Witness ==
    /\ strategy = "cow"
    /\ last.op = "redo"
    /\ last.ret = RedoTerminal
    /\ last.pre.previous.op = "push_str"
    /\ last.pre.previous.state.current_version = 1
    /\ Len(last.pre.previous.state.versions) = 2

(* C22: CowPersistentString: a redo() right after a successful undo()       *)
(* succeeds and restores the state and the snapshot held before the undo;   *)
(* every mutation moves current up by one and every successful undo() moves *)
(* it down by one without touching the stack, and the snapshot at current 0 *)
(* is empty, so k undos after k mutations from empty end at the empty text. *)
C22_CowRedoInvertsUndo ==
    strategy = "cow" =>
        /\ (last.op = "redo" /\ last.pre.previous.op = "undo"
              /\ last.pre.previous.ret = Ok) =>
              /\ last.ret = Ok
              /\ cow = last.pre.previous.state
              /\ cow_snapshot(cow).bytes = last.pre.previous.snapshot
        /\ last.op \in {"push_str", "repeat"} =>
              cow.current_version = last.pre.state.current_version + 1
        /\ (last.op = "undo" /\ last.ret = Ok) =>
              /\ cow.current_version = last.pre.state.current_version - 1
              /\ cow.versions = last.pre.state.versions
        /\ (last.op = "undo" /\ last.ret = Ok /\ last.pre.previous.op = "push_str"
              /\ last.pre.previous.state.current_version = 0) =>
              cow_snapshot(cow).bytes = <<>>
        /\ cow.current_version = 0 =>
              /\ cow_snapshot(cow).bytes = <<>>
              /\ cow_len(cow) = 0
              /\ cow_is_empty(cow)

\* redo() restored a non-empty second version after undo() had left it
C22_Witness ==
    /\ strategy = "cow"
    /\ last.op = "redo"
    /\ last.ret = Ok
    /\ last.pre.previous.op = "undo"
    /\ last.pre.previous.ret = Ok
    /\ cow.current_version = 2
    /\ last.pre.state.current_version = 1
    /\ cow_snapshot(cow).bytes # <<>>
    /\ cow_snapshot(cow).bytes # last.pre.snapshot

----------------------------------------------------------------------------
(* The strategies compared                                                  *)

RECURSIVE ApplyInOrder(_, _)
ApplyInOrder(deltas, string) ==
    IF deltas = <<>> THEN string
    ELSE ApplyInOrder(Tail(deltas),
                      IF Head(deltas).kind = "PushStr"
                      THEN string \o Head(deltas).suffix
                      ELSE Text_(Copies(CharsOf([ok |-> TRUE, bytes |-> string]),
                                        Head(deltas).times)).bytes)

(* C24: DeltaPersistentString's snapshot() is the deltas [0, current)       *)
(* applied in order to the empty string, and after every call of a          *)
(* sequence of push_str, repeat, undo and redo made on it and on a          *)
(* CowPersistentString from new(), the two returned the same result and     *)
(* have the same snapshot(), len() and is_empty().                          *)
C24_DeltaFoldsAndAgreesWithCow ==
    strategy = "cow and delta" =>
        /\ ~panicked
        /\ delta.current_version <= Len(delta.deltas)
        /\ delta_snapshot(delta).bytes
             = ApplyInOrder(SubSeq(delta.deltas, 1, delta.current_version), <<>>)
        /\ last.ret.delta = last.ret.cow
        /\ delta_snapshot(delta) = cow_snapshot(cow)
        /\ delta_len(delta) = cow_len(cow)
        /\ delta_is_empty(delta) = cow_is_empty(cow)

\* both hold a text of two copies of a pushed string, rebuilt by redo()
C24_Witness ==
    /\ strategy = "cow and delta"
    /\ last.op = "redo"
    /\ last.ret.delta = Ok
    /\ delta.current_version = 2
    /\ delta.deltas[1].kind = "PushStr"
    /\ delta.deltas[2] = DeltaRepeat(2)
    /\ Len(delta_snapshot(delta).bytes) = 2
    /\ cow_snapshot(cow).bytes = delta_snapshot(delta).bytes

----------------------------------------------------------------------------
(* The rope's arena                                                         *)

\* the last call was `op` on the rope, and it returned
RopeReturned(op) == strategy = "rope" /\ ~panicked /\ last.op = op

\* the root the call was made at, and the root of the version it allocated
PriorRoot == current_node_address(last.pre.engine)

NewRoot == rope.versions[Len(rope.versions)]

\* the segment of the bytes the call appended to the buffer
AppendedSegment == BytesSegment(Len(last.pre.engine.buffer), Len(rope.buffer))

\* the call appended `bytes` to the buffer, once
Appended(bytes) == rope.buffer = last.pre.engine.buffer \o bytes

\* the arena is the prior arena followed by `nodes`
Allocated(nodes) == rope.nodes = last.pre.engine.nodes \o nodes

(* C25: rope push(c) made at the empty root 0 allocates one node, the leaf  *)
(* over the segment of c, and that leaf is the new root; made at any other  *)
(* root it allocates the leaf and Parent(current root, leaf) as new root.   *)
C25_RopePushRoot ==
    RopeReturned("push") =>
        /\ Appended(encode_utf8(last.args[1]))
        /\ IF PriorRoot = 0
           THEN /\ Allocated(<<of_segment(AppendedSegment)>>)
                /\ NewRoot = Len(last.pre.engine.nodes)
           ELSE /\ Allocated(
                     <<of_segment(AppendedSegment),
                       Node(last.pre.len + segment_len(AppendedSegment),
                            Parent(PriorRoot, Len(last.pre.engine.nodes)))>>)
                /\ NewRoot = Len(last.pre.engine.nodes) + 1

(* C26: rope push_str(s) with non-empty s appends the bytes of s once and   *)
(* allocates the leaf over them, which is the new root when the call is     *)
(* made at root 0, and otherwise also Parent(current root, leaf) as the new *)
(* root; with empty s it allocates no node and no byte and the new version  *)
(* records the root of the current one.                                     *)
C26_RopePushStrRoot ==
    RopeReturned("push_str") =>
        /\ Appended(last.args[1])
        /\ Len(rope.versions) = Len(last.pre.engine.versions) + 1
        /\ IF last.args[1] = <<>>
           THEN /\ Allocated(<<>>)
                /\ NewRoot = PriorRoot
           ELSE IF PriorRoot = 0
           THEN /\ Allocated(<<of_segment(AppendedSegment)>>)
                /\ NewRoot = Len(last.pre.engine.nodes)
           ELSE /\ Allocated(
                     <<of_segment(AppendedSegment),
                       Node(last.pre.len + segment_len(AppendedSegment),
                            Parent(PriorRoot, Len(last.pre.engine.nodes)))>>)
                /\ NewRoot = Len(last.pre.engine.nodes) + 1

\* push_str of a non-empty string at a non-empty root, after push_str at
\* root 0 had made a single leaf the root
C26_Witness ==
    /\ RopeReturned("push_str")
    /\ last.args[1] # <<>>
    /\ PriorRoot # 0
    /\ NodeAt(rope.nodes, PriorRoot).body.kind = "Leaf"
    /\ NodeAt(rope.nodes, NewRoot).body = Parent(PriorRoot, NewRoot - 1)

\* the ids of the arena's nodes, and those of its Parents
NodeIds == 0 .. Len(rope.nodes) - 1

ParentIds == {id \in NodeIds : NodeAt(rope.nodes, id).body.kind = "Parent"}

(* C27: no Parent of a reachable rope arena has node 0, the empty leaf, as  *)
(* its left or right child, and no pop() panics: neither the assertion      *)
(* 'children cannot be empty' nor the expectation 'no empty segments should *)
(* be present in the place other than root' fails.                          *)
C27_NoParentOverEmptyNode ==
    strategy = "rope" =>
        /\ \A id \in ParentIds :
              /\ NodeAt(rope.nodes, id).body.left # 0
              /\ NodeAt(rope.nodes, id).body.right # 0
        /\ ~(panicked /\ last.op = "pop")

----------------------------------------------------------------------------
(* Storage that only grows                                                  *)

\* `before` is what `after` starts with
IsPrefix(before, after) ==
    /\ Len(before) <= Len(after)
    /\ \A i \in 1 .. Len(before) : after[i] = before[i]

(* C29: every step of the rope and of the segment list, a call that panics  *)
(* included, leaves every byte of the buffer, every node of the arena and   *)
(* every record of the version registry as it was; the three only grow at   *)
(* their end.                                                               *)
C29_StorageIsAppendOnly ==
    [][/\ IsPrefix(rope.buffer, rope'.buffer)
       /\ IsPrefix(rope.nodes, rope'.nodes)
       /\ IsPrefix(rope.versions, rope'.versions)
       /\ IsPrefix(long.buffer, long'.buffer)
       /\ IsPrefix(long.versions, long'.versions)]_vars

\* a segment-list call left a shorter text in a new record, after all the
\* records it found, and wrote nothing to the buffer
C29_Witness ==
    /\ strategy = "long_buffer"
    /\ ~panicked
    /\ last.op \in {"pop", "repeat", "retain"}
    /\ last.pre.latest >= 1
    /\ Len(long.versions) = Len(last.pre.engine.versions) + 1
    /\ Len(long_snapshot(long).bytes) < Len(last.pre.snapshot.bytes)
    /\ long.buffer = last.pre.engine.buffer

----------------------------------------------------------------------------
(* Structural sharing in the rope                                           *)

\* the arena the last call found, and whether the call allocated node `id`
PriorNodes == last.pre.engine.nodes

IsNew(id) == id >= Len(PriorNodes)

NewNodeCount == Len(rope.nodes) - Len(PriorNodes)

\* the nodes from `id` down the right children to a leaf
RECURSIVE RightSpineLength(_)
RightSpineLength(id) ==
    LET node == NodeAt(PriorNodes, id) IN
    IF node.body.kind = "Leaf" THEN 1 ELSE 1 + RightSpineLength(node.body.right)

\* node `new` of the arena stands, after pop() returned `popped`, where node
\* `prior` stood: a leaf gave way to node 0 or to a new leaf; a Parent to a
\* new Parent over the same left child and the replacement of its right
\* child, or, its right child having held `popped` alone, to its left child
RECURSIVE PopReplaces(_, _, _)
PopReplaces(new, prior, popped) ==
    LET was == NodeAt(PriorNodes, prior)
        now == NodeAt(rope.nodes, new)
    IN  IF was.body.kind = "Leaf"
        THEN new = 0 \/ (IsNew(new) /\ now.body.kind = "Leaf")
        ELSE \/ /\ IsNew(new)
                /\ now.body.kind = "Parent"
                /\ now.body.left = was.body.left
                /\ PopReplaces(now.body.right, was.body.right, popped)
             \/ /\ new = was.body.left
                /\ NodeAt(PriorNodes, was.body.right).length = len_utf8(popped)

\* the Parents insert_str passes from `id` down to the leaf it splits
RECURSIVE InsertPathParents(_, _)
InsertPathParents(id, index) ==
    LET node == NodeAt(PriorNodes, id) IN
    IF node.body.kind = "Leaf" THEN 0
    ELSE LET left_length == NodeAt(PriorNodes, node.body.left).length IN
         IF index <= left_length
         THEN 1 + InsertPathParents(node.body.left, index)
         ELSE 1 + InsertPathParents(node.body.right, index - left_length)

\* node `new` stands, after insert_str at `index`, where node `prior` stood:
\* a Parent gave way to a new Parent that keeps the child the index does not
\* fall in; the leaf gave way to the new subtree with the insertion
RECURSIVE InsertReplaces(_, _, _)
InsertReplaces(new, prior, index) ==
    LET was == NodeAt(PriorNodes, prior)
        now == NodeAt(rope.nodes, new)
    IN  /\ IsNew(new)
        /\ now.body.kind = "Parent"
        /\ was.body.kind = "Parent" =>
              LET left_length == NodeAt(PriorNodes, was.body.left).length IN
              IF index <= left_length
              THEN /\ now.body.right = was.body.right
                   /\ InsertReplaces(now.body.left, was.body.left, index)
              ELSE /\ now.body.left = was.body.left
                   /\ InsertReplaces(now.body.right, was.body.right,
                                     index - left_length)

\* the bytes the last insert or insert_str was to insert
Insertion ==
    IF last.op = "insert" THEN encode_utf8(last.args[2]) ELSE last.args[2]

\* pop and insert_str allocate along one path and share the rest
PathIsRebuiltAndRestShared ==
    /\ (RopeReturned("pop") /\ last.ret # None) =>
          /\ PopReplaces(NewRoot, PriorRoot, last.ret[2])
          /\ NewNodeCount <= RightSpineLength(PriorRoot)
    /\ (RopeReturned("insert") \/ RopeReturned("insert_str")) =>
          IF Insertion = <<>> THEN NewNodeCount = 0 /\ NewRoot = PriorRoot
          ELSE IF last.pre.len = 0
          THEN NewNodeCount = 1 /\ NewRoot = Len(PriorNodes)
          ELSE /\ InsertReplaces(NewRoot, PriorRoot, last.args[1])
               /\ NewNodeCount - InsertPathParents(PriorRoot, last.args[1])
                    \in {2, 5}

\* the root the call was made at is the left child of the new root
PriorRootIsLeftChild ==
    /\ NodeAt(rope.nodes, NewRoot).body.kind = "Parent"
    /\ NodeAt(rope.nodes, NewRoot).body.left = PriorRoot

----------------------------------------------------------------------------
(* The shapes the rope's calls build                                        *)

\* the k-th node the last call allocated, k from 0
NewNode(k) == NodeAt(rope.nodes, Len(PriorNodes) + k)

(* C31: rope repeat(n) leaves the buffer as it was and records one version; *)
(* made at an empty root it records root 0 and allocates nothing; made at a *)
(* non-empty root r it records root 0 for n = 0 and r for n = 1, allocating *)
(* nothing, allocates the one node Parent(r, r) for n = 2, and for n > 2    *)
(* allocates n - 1 nodes, Parent(r, r) and then a Parent of the node before *)
(* and r each, the last of them the new root.                               *)
C31_RopeRepeatShape ==
    RopeReturned("repeat") =>
        LET n == last.args[1]
            r == PriorRoot
        IN  /\ rope.buffer = last.pre.engine.buffer
            /\ Len(rope.versions) = Len(last.pre.engine.versions) + 1
            /\ IF NodeAt(PriorNodes, r).length = 0 \/ n = 0
               THEN NewNodeCount = 0 /\ NewRoot = 0
               ELSE IF n = 1
               THEN NewNodeCount = 0 /\ NewRoot = r
               ELSE /\ NewNodeCount = n - 1
                    /\ NewRoot = Len(PriorNodes) + n - 2
                    /\ NewNode(0).body = Parent(r, r)
                    /\ \A k \in 1 .. n - 2 :
                          NewNode(k).body = Parent(Len(PriorNodes) + k - 1, r)

\* repeat(3) at a one-byte root allocated the two nodes of the spine
C31_Witness ==
    /\ RopeReturned("repeat")
    /\ last.args = <<3>>
    /\ last.pre.len = 1
    /\ NewNodeCount = 2
    /\ NewNode(1).body = Parent(Len(PriorNodes), PriorRoot)
    /\ rope_snapshot(rope) = Text_(<<97, 97, 97>>)

(* C33: in every reachable rope state the root a version records is node 0  *)
(* exactly when that root's length is 0, so the `== 0` tests on the root id *)
(* (push_str, repeat) and on the root's length (pop, insert_str) agree.     *)
C33_RootIsZeroIffEmpty ==
    strategy = "rope" =>
        \A v \in 1 .. Len(rope.versions) :
            (rope.versions[v] = 0) <=> (NodeAt(rope.nodes, rope.versions[v]).length = 0)

\* pop() took the only char of a text and recorded root 0
C33_Witness ==
    /\ RopeReturned("pop")
    /\ last.ret # None
    /\ PriorRoot # 0
    /\ NewRoot = 0
    /\ rope_len(rope) = 0

\* the leaf insert_str reaches from node `id` with `index`, and the index
\* left within it
RECURSIVE InsertTarget(_, _)
InsertTarget(id, index) ==
    LET node == NodeAt(PriorNodes, id) IN
    IF node.body.kind = "Leaf" THEN [address |-> id, index |-> index]
    ELSE LET left_length == NodeAt(PriorNodes, node.body.left).length IN
         IF index <= left_length
         THEN InsertTarget(node.body.left, index)
         ELSE InsertTarget(node.body.right, index - left_length)

\* the last call was insert or insert_str of a non-empty string into a
\* non-empty text, and it returned
InsertedAtLeaf ==
    /\ RopeReturned("insert") \/ RopeReturned("insert_str")
    /\ Insertion # <<>>
    /\ last.pre.len # 0

(* C32: rope insert_str of a non-empty string, at the leaf the index falls  *)
(* in: the insertion becomes a new leaf; at index 0 of the leaf the leaf is *)
(* replaced by Parent(inserted, leaf), at the leaf's end by                 *)
(* Parent(leaf, inserted), the leaf itself untouched; in between the leaf's *)
(* segment [begin, end) is split into new leaves over [begin, begin+index)  *)
(* and [begin+index, end) and the leaf is replaced by                       *)
(* Parent(Parent(left part, inserted), right part).                         *)
C32_RopeInsertAtLeafShape ==
    InsertedAtLeaf =>
        LET target == InsertTarget(PriorRoot, last.args[1])
            leaf == NodeAt(PriorNodes, target.address)
            segment == leaf.body.segment
            inserted == Len(PriorNodes)
            grown == leaf.length + Len(Insertion)
            replaced_by(id) ==
                InsertPathParents(PriorRoot, last.args[1]) = 0 => NewRoot = id
        IN  /\ Appended(Insertion)
            /\ NewNode(0) = of_segment(AppendedSegment)
            /\ NodeAt(rope.nodes, target.address) = leaf
            /\ IF target.index = 0
               THEN /\ NewNode(1) = Node(grown, Parent(inserted, target.address))
                    /\ replaced_by(inserted + 1)
               ELSE IF target.index = segment_len(segment)
               THEN /\ NewNode(1) = Node(grown, Parent(target.address, inserted))
                    /\ replaced_by(inserted + 1)
               ELSE /\ NewNode(1) = of_segment(
                          BytesSegment(segment.begin, segment.begin + target.index))
                    /\ NewNode(2) = of_segment(
                          BytesSegment(segment.begin + target.index, segment.end))
                    /\ NewNode(3) = Node(target.index + Len(Insertion),
                                         Parent(inserted + 1, inserted))
                    /\ NewNode(4) = Node(grown, Parent(inserted + 3, inserted + 2))
                    /\ replaced_by(inserted + 4)

\* insert_str split a three-byte leaf after its first byte
C32_Witness ==
    /\ InsertedAtLeaf
    /\ NodeAt(PriorNodes, PriorRoot).body.kind = "Leaf"
    /\ last.args[1] = 1
    /\ last.pre.len = 3
    /\ NewNodeCount = 5
    /\ NodeAt(rope.nodes, NewRoot).body = Parent(Len(PriorNodes) + 3, Len(PriorNodes) + 2)

----------------------------------------------------------------------------
(* The segment list's segments                                              *)

(* C34: no version of the segment list stores an empty segment              *)
(* (begin = end), and no pop() panics: the expectation 'no empty segments   *)
(* should be stored' holds and Segment::len does not underflow.             *)
C34_LongStoresNoEmptySegment ==
    strategy = "long_buffer" =>
        /\ \A v \in 1 .. Len(long.versions) :
              \A k \in 1 .. Len(long.versions[v].segments) :
                  long.versions[v].segments[k].begin < long.versions[v].segments[k].end
        /\ ~(panicked /\ last.op = "pop")

\* segment `inner` is a non-empty range within segment `outer`
IsSubRange(inner, outer) ==
    /\ inner.begin < inner.end
    /\ outer.begin <= inner.begin
    /\ inner.end <= outer.end

\* `from` assigns to each segment of `new` the segment of `old` it was cut
\* from: in order, and the ranges cut from one segment in order and apart
CutInOrder(new, old, from) ==
    /\ \A i \in 1 .. Len(new) : IsSubRange(new[i], old[from[i]])
    /\ \A i \in 1 .. Len(new) - 1 :
          \/ from[i] < from[i + 1]
          \/ from[i] = from[i + 1] /\ new[i].end < new[i + 1].begin

(* C35: the segment list's retain leaves the byte buffer as it was, and the *)
(* segments of the version it allocates are non-empty sub-ranges, each of   *)
(* one segment of the version the call was made at, in the order of those   *)
(* segments and of the bytes within each.                                   *)
C35_LongRetainCopiesNoBytes ==
    (strategy = "long_buffer" /\ ~panicked /\ last.op = "retain") =>
        LET old == last.pre.engine.versions[last.pre.version + 1].segments
            new == long.versions[Len(long.versions)].segments
        IN  /\ long.buffer = last.pre.engine.buffer
            /\ Len(long.versions) = Len(last.pre.engine.versions) + 1
            /\ new = <<>> \/
                  \E from \in [1 .. Len(new) -> 1 .. Len(old)] :
                      CutInOrder(new, old, from)

\* retain dropped the middle char of a segment and kept two ranges of it
C35_Witness ==
    /\ strategy = "long_buffer"
    /\ ~panicked
    /\ last.op = "retain"
    /\ last.args[1] = {97}
    /\ Len(last.pre.engine.versions[last.pre.version + 1].segments) = 1
    /\ Len(long.versions[Len(long.versions)].segments) = 2
    /\ long_snapshot(long) = Text_(<<97, 97>>)

----------------------------------------------------------------------------
(* The rope's indices                                                       *)

LeafIds == NodeIds \ ParentIds

(* C36: in every state of the rope, a panicked one included, each version   *)
(* record and the current version name a node of the arena, each child of a *)
(* Parent is a node of the arena, and each leaf's segment has               *)
(* begin <= end <= the buffer's length.                                     *)
C36_RopeIndicesInRange ==
    strategy = "rope" =>
        /\ rope.current_version \in 0 .. Len(rope.versions) - 1
        /\ \A v \in 1 .. Len(rope.versions) : rope.versions[v] \in NodeIds
        /\ \A id \in ParentIds :
              /\ NodeAt(rope.nodes, id).body.left \in NodeIds
              /\ NodeAt(rope.nodes, id).body.right \in NodeIds
        /\ \A id \in LeafIds :
              LET segment == NodeAt(rope.nodes, id).body.segment
              IN  /\ 0 <= segment.begin
                  /\ segment.begin <= segment.end
                  /\ segment.end <= Len(rope.buffer)

\* the newest version's root is the last node of the arena, a Parent, and a
\* leaf ends with the buffer
C36_Witness ==
    /\ strategy = "rope"
    /\ Len(rope.versions) = MaxVersion + 1
    /\ rope.versions[Len(rope.versions)] = Len(rope.nodes) - 1
    /\ Len(rope.nodes) - 1 \in ParentIds
    /\ \E id \in LeafIds :
          LET segment == NodeAt(rope.nodes, id).body.segment
          IN  segment.begin > 0 /\ segment.end = Len(rope.buffer)

----------------------------------------------------------------------------
(* The rope's insert_str past the end                                       *)

\* the rope's insert or insert_str was called with an index greater than the
\* length insert_str compares it with, the root's length in bytes
InsertPastLength ==
    /\ strategy = "rope"
    /\ last.op \in {"insert", "insert_str"}
    /\ last.args[1] > NodeAt(PriorNodes, PriorRoot).length

(* C37: the rope's insert and insert_str with an index greater than the     *)
(* length panic with 'index exceeds length', and the buffer, the arena, the *)
(* version registry and the current version are those the call found.       *)
C37_RopeInsertPastLengthChangesNothing ==
    InsertPastLength =>
        /\ panicked
        /\ last.ret = Panic("index exceeds length")
        /\ rope.buffer = last.pre.engine.buffer
        /\ rope.nodes = last.pre.engine.nodes
        /\ rope.versions = last.pre.engine.versions
        /\ rope.current_version = last.pre.engine.current_version

\* insert_str of a non-empty string past the end of a non-empty text panicked
C37_Witness ==
    /\ InsertPastLength
    /\ panicked
    /\ last.op = "insert_str"
    /\ last.args[2] # Str(<<>>)
    /\ rope.buffer # <<>>
    /\ Len(rope.nodes) > 1

----------------------------------------------------------------------------
(* current_version of the copying and the delta strategy                    *)

(* C38: in every state push_str, repeat, undo and redo reach,               *)
(* current_version of the copying and of the delta strategy is at most the  *)
(* number of stored versions or deltas: no call panics on the subtraction   *)
(* of mutate_or_else or push_delta, and current_version is 0, the empty     *)
(* state, or the position of a stored entry.                                *)
C38_CurrentVersionWithinStored ==
    strategy \in UndoStrategies =>
        /\ ~panicked
        /\ last.ret # Panic("attempt to subtract with overflow")
        /\ History.current_version \in 0 .. Len(Stored(History))
        /\ strategy = "cow" =>
              (cow.current_version = 0 \/ cow_current_version(cow) # None)

\* the delta strategy mutated at the empty state with two deltas stored, and
\* both were overwritten
C38_Witness ==
    /\ MutatedBehindNewest
    /\ strategy = "delta"
    /\ last.pre.state.current_version = 0
    /\ Len(Stored(last.pre.state)) = 2
    /\ Len(Stored(History)) = 1
    /\ History.current_version = 1

============================================================================
